---- MODULE Spec2Model ----
(***************************************************************************)
(* Attuario Wave Rotation: the decision-and-safety engine.                 *)
(*                                                                         *)
(* The specifications that share this module:                              *)
(*   SpecKillSwitch  the KillSwitch object under arbitrary call sequences  *)
(*   SpecRunLock     main()'s run-lock protocol for overlapping processes  *)
(*   SpecRunLockSerial  the same protocol, invocations not overlapping     *)
(*   Spec            the rotation cycle (_run_strategy) run after run      *)
(*   SpecFunctions   single calls of the scoring, guard and settlement     *)
(*                   functions                                             *)
(*   SpecSwitchPolicy  select_best_pool applied cycle after cycle          *)
(*   SpecCrisis      the crisis, pause, resume and settlement part of the  *)
(*                   cycle, cycle after cycle                              *)
(*   SpecRpc, SpecRpcLive  the RPC failover layer of onchain.py            *)
(*   SpecPersist     the state files through starts, saves and crashes     *)
(* Amounts and scores are integers in fixed units; timestamps are integer  *)
(* clock readings.                                                         *)
(***************************************************************************)
EXTENDS Integers, Sequences, FiniteSets, TLC

VARIABLES
    now,            \* time.time()
    \* ---- kill_switch.py
    ks,             \* KillSwitchState of the process-wide KillSwitch
    threshold,      \* KillSwitch.threshold
    reset_timeout,  \* KillSwitch.reset_timeout
    ks_op,          \* the last KillSwitch method called
    check_raised,   \* whether the last check() raised RuntimeError
    run_errors,     \* record_error calls since the last success, reset or idle expiry
    run_clean,      \* the switch was not tripped when the current run of errors began
    ks_before,      \* the KillSwitchState before the last KillSwitch method call
    \* ---- run_lock.py, and main() of strategy.py
    lock,           \* the .run_lock file: exists, st_mtime, the pid written in it
    pc,             \* where each invocation of main() stands
    acquired,       \* RunLock.acquired of each invocation
    lock_error,     \* the RunLockError each invocation's __enter__ raised, if any
    seen_age,       \* the lock age each invocation read in __enter__
    body_exit,      \* how _run_strategy ended in each invocation
    \* ---- strategy.py and executor.py: the rotation cycle
    cfg,            \* the settings of the deployment (environment and config.json)
    state,          \* StrategyState as persisted in state.json
    cpc,            \* where the running cycle stands
    cyc,            \* what the running (or last) cycle saw and did
    outcome,        \* how the last cycle ended
    notified,       \* the last cycle reached its log row and notification
    \* ---- the pure functions: scoring, ops_guard, settlement
    fn,             \* the function called last
    args,           \* the arguments of that call
    ret,            \* what the call returned
    \* ---- the files of the deployment, and onchain.py's RPC layer
    ledger,         \* capital.txt and treasury.txt, amounts in millionths
    disk,           \* the content of the state files on storage
    rpc             \* the module globals of onchain.py and the call in progress

ksVars == <<ks, threshold, reset_timeout, ks_op, check_raised, run_errors, run_clean,
           ks_before>>
lockVars == <<lock, pc, acquired, lock_error, seen_age, body_exit>>
cycVars == <<cfg, state, cpc, cyc, outcome, notified>>
fnVars == <<fn, args, ret>>
ioVars == <<ledger, disk, rpc>>
vars == <<now, ksVars, lockVars, cycVars, fnVars, ioVars>>

\* ------------------------------------------------------------------ bounds
MaxTime == 4
MaxThreshold == 3
MaxResetTimeout == 2
MaxErrors == 4
NumProcs == 2
StaleAfter == 2
MaxScore == 2
MaxStreak == 4
MaxCycleTime == 5
MaxCapital == 12
NumEndpoints == 3

\* ------------------------------------------------------------------ helpers
NoTime == -1

Max(a, b) == IF a >= b THEN a ELSE b

Procs == 1..NumProcs

NoAge == -1
NoFile == [exists |-> FALSE, mtime |-> NoTime, pid |-> 0]

\* the states of the other specifications' variables while they are not in use
LockIdle ==
    /\ lock = NoFile
    /\ pc = [p \in Procs |-> "start"]
    /\ acquired = [p \in Procs |-> FALSE]
    /\ lock_error = [p \in Procs |-> "none"]
    /\ seen_age = [p \in Procs |-> NoAge]
    /\ body_exit = [p \in Procs |-> "none"]

\* no file of the deployment written yet, no RPC endpoint selected
IoIdle ==
    /\ ledger = [capital |-> 0, treasury |-> 0]
    /\ disk = << >>
    /\ rpc = << >>

\* ------------------------------------------------------- the rotation cycle

Pools == {"A", "B"}
NoPool == "None"

\* scores and per-interval net returns, in fixed units
Scores == -1..MaxScore
RNets == {-2, 1}

\* capital_hint_eth, the capital a cycle works with
Capitals == {0, 2}

\* StrategyConfig.delta_switch, in percent (the default 0.01)
DeltaSwitchPct == 1

\* StrategyState(): the dataclass defaults
StrategyState ==
    [pool_id |-> NoPool, score |-> 0, paused |-> FALSE, crisis_streak |-> 0,
     last_portfolio_move |-> FALSE]

\* the per-cycle record before anything ran
FreshCycle ==
    [paused_at_start |-> FALSE, prev_pool |-> NoPool, prev_known |-> FALSE,
     prev_score |-> 0, prev_rnet |-> 0,
     sel_pool |-> NoPool, sel_score |-> 0, sel_rnet |-> 0,
     switch_ok |-> FALSE, guard |-> "none", pstatus |-> "none",
     cur_adapter |-> FALSE, next_adapter |-> FALSE,
     calls |-> << >>, notes |-> << >>, movement |-> FALSE, stamped |-> FALSE,
     active_pool |-> NoPool, switch_stamped |-> FALSE]

CycleIdle ==
    /\ cfg = [dry_run |-> FALSE, onchain |-> TRUE, capital |-> 2,
              delta_switch |-> DeltaSwitchPct]
    /\ state = StrategyState
    /\ cpc = "idle"
    /\ cyc = FreshCycle
    /\ outcome = "none"
    /\ notified = FALSE

\* no pure function has been called
FnIdle ==
    /\ fn = "none"
    /\ args = << >>
    /\ ret = << >>

\* ------------------------------------------------------------- kill_switch

\* KillSwitchState(): the dataclass defaults
KillSwitchState ==
    [consecutive_errors |-> 0, last_error_time |-> NoTime,
     triggered |-> FALSE, triggered_at |-> NoTime]

\* KillSwitch.__init__: threshold = max(1, threshold), reset_timeout = max(0, ...)
KillSwitchInit(threshold_arg, timeout_arg) ==
    /\ threshold = Max(1, threshold_arg)
    /\ reset_timeout = Max(0, timeout_arg)
    /\ ks = KillSwitchState

\* mutant of ShouldResetCounter: the idle timeout never resets the counter
ShouldResetCounter_Never(st, t) == FALSE

\* KillSwitch._should_reset_counter
ShouldResetCounter(st, t) ==
    IF st.last_error_time = NoTime THEN FALSE
    ELSE (t - st.last_error_time) > reset_timeout

\* mutant of ThresholdReached: trips one error late
ThresholdReached_Late(count) == count > threshold

\* the threshold test of record_error
ThresholdReached(count) == count >= threshold

\* KillSwitch.record_error: the state after recording an error at time t
AfterRecordError(st, t) ==
    LET base == IF ShouldResetCounter(st, t) THEN 0 ELSE st.consecutive_errors
        count == base + 1
        trip == ThresholdReached(count) /\ ~st.triggered
    IN [consecutive_errors |-> count,
        last_error_time |-> t,
        triggered |-> IF trip THEN TRUE ELSE st.triggered,
        triggered_at |-> IF trip THEN t ELSE st.triggered_at]

\* mutant of AfterRecordSuccess: a success also clears the triggered flag
AfterRecordSuccess_Clears(st) == KillSwitchState

\* KillSwitch.record_success: the state after recording a success
AfterRecordSuccess(st) ==
    [st EXCEPT !.consecutive_errors = 0, !.last_error_time = NoTime]

\* KillSwitch.check: raises RuntimeError iff the switch is triggered
CheckRaises(st) == st.triggered

record_error ==
    /\ ks.consecutive_errors < MaxErrors
    /\ ks' = AfterRecordError(ks, now)
    /\ ks_op' = "record_error"
    /\ ks_before' = ks
    /\ run_errors' = IF ShouldResetCounter(ks, now) THEN 1 ELSE run_errors + 1
    /\ run_clean' = IF ShouldResetCounter(ks, now) THEN ~ks.triggered ELSE run_clean
    /\ UNCHANGED <<ioVars, fnVars, now, threshold, reset_timeout, check_raised, lockVars, cycVars>>

record_success ==
    /\ ks' = AfterRecordSuccess(ks)
    /\ ks_op' = "record_success"
    /\ ks_before' = ks
    /\ run_errors' = 0
    /\ run_clean' = ~ks.triggered
    /\ UNCHANGED <<ioVars, fnVars, now, threshold, reset_timeout, check_raised, lockVars, cycVars>>

reset ==
    /\ ks' = KillSwitchState
    /\ ks_op' = "reset"
    /\ ks_before' = ks
    /\ run_errors' = 0
    /\ run_clean' = TRUE
    /\ UNCHANGED <<ioVars, fnVars, now, threshold, reset_timeout, check_raised, lockVars, cycVars>>

check ==
    /\ check_raised' = CheckRaises(ks)
    /\ ks_op' = "check"
    /\ ks_before' = ks
    /\ UNCHANGED <<ioVars, fnVars, now, ks, threshold, reset_timeout, run_errors, run_clean, lockVars, cycVars>>

\* the clock advances between calls
Tick ==
    /\ now < MaxTime
    /\ now' = now + 1
    /\ UNCHANGED <<ioVars, fnVars, ksVars, lockVars, cycVars>>

InitKillSwitch ==
    /\ now = 0
    /\ LockIdle
    /\ IoIdle
    /\ CycleIdle
    /\ FnIdle
    /\ \E th \in 0..MaxThreshold, to \in 0..MaxResetTimeout : KillSwitchInit(th, to)
    /\ ks_op = "init"
    /\ check_raised = FALSE
    /\ run_errors = 0
    /\ run_clean = TRUE
    /\ ks_before = KillSwitchState

NextKillSwitch == record_error \/ record_success \/ reset \/ check \/ Tick

SpecKillSwitch == InitKillSwitch /\ [][NextKillSwitch]_vars

\* C1: in a run of record_error calls with no intervening success, reset or idle
\* expiry, begun with the switch not tripped, triggered is true exactly when the
\* run has reached the threshold, and a check() raises exactly from that point on.
C1_TripsExactlyAtThreshold ==
    run_clean =>
        /\ (ks.triggered <=> run_errors >= threshold)
        /\ (ks_op = "check" => (check_raised <=> run_errors >= threshold))

\* C1 witness: a threshold of 3 was reached by the third error of a clean run
C1_Witness ==
    /\ run_clean /\ threshold = 3 /\ run_errors = 3
    /\ ks.triggered /\ ks_op = "record_error"

\* C2: a tripped switch stays tripped through every step but reset(), check()
\* raises exactly when the switch is tripped, and reset() clears it.
C2_StickyUntilReset ==
    [][ /\ ((ks.triggered /\ ~reset) => ks'.triggered)
        /\ (check => (check_raised' <=> ks.triggered))
        /\ (reset => ~ks'.triggered) ]_vars

\* C2 witness: the switch is still tripped after a success cleared the streak
C2_Witness ==
    /\ ks.triggered /\ ks.consecutive_errors = 0 /\ ks_op = "record_success"

\* the last call was a record_error made after a record_success (or a reset)
\* with no error since
ErrorAfterSuccess ==
    /\ ks_op = "record_error"
    /\ ks_before.last_error_time = NoTime

\* the last call was a record_error made when the time since the last
\* recorded error exceeded the idle timeout
ErrorAfterIdle ==
    /\ ks_op = "record_error"
    /\ ks_before.last_error_time # NoTime
    /\ ks.last_error_time - ks_before.last_error_time > reset_timeout

\* C27: the streak counts only consecutive errors: record_success sets
\* consecutive_errors to zero, and the record_error that follows a success or
\* comes once the time since the last recorded error exceeds the idle timeout
\* starts a new streak at 1 and, for a threshold > 1, does not trip the switch.
C27_StreakRestarts ==
    /\ ks_op = "record_success" => ks.consecutive_errors = 0
    /\ (ErrorAfterSuccess \/ ErrorAfterIdle) =>
         /\ ks.consecutive_errors = 1
         /\ (threshold > 1 /\ ~ks_before.triggered) => ~ks.triggered

\* two errors in a row, a quiet time longer than the timeout, and the next
\* error counted as the first of a new streak under a threshold of 3
C27_Witness ==
    /\ ErrorAfterIdle
    /\ threshold = 3
    /\ ks_before.consecutive_errors = 2
    /\ ks.consecutive_errors = 1
    /\ ~ks.triggered

\* ------------------------------------------------------------------ scoring

\* an optional score: << >> is None (no dict), <<s>> a dict whose score is s
OptScores == {<< >>} \cup {<<s>> : s \in Scores}

\* min_delta in percent: none, the default, and a wide band
MinDeltas == {0, DeltaSwitchPct, 200}

\* cooldown_s: absent (0) or a window
Cooldowns == {0, 1, 3}

\* time.time() is positive; last_switch_ts is None or an earlier reading
Times == 1..MaxTime

\* mutant of should_switch: the threshold is a discount instead of a premium
should_switch_Discount(best, current, min_delta, cooldown_s, last_switch_ts, t) ==
    IF best = << >> THEN FALSE
    ELSE IF current = << >> THEN TRUE
    ELSE IF current[1] <= 0 THEN best[1] > 0
    ELSE IF best[1] * 100 < current[1] * (100 - min_delta) THEN FALSE
    ELSE IF /\ cooldown_s # 0
            /\ last_switch_ts # NoTime /\ last_switch_ts # 0
            /\ (t - last_switch_ts) < cooldown_s THEN FALSE
    ELSE TRUE

\* mutant of should_switch: the cooldown test is dropped
should_switch_NoCooldown(best, current, min_delta, cooldown_s, last_switch_ts, t) ==
    IF best = << >> THEN FALSE
    ELSE IF current = << >> THEN TRUE
    ELSE IF current[1] <= 0 THEN best[1] > 0
    ELSE IF best[1] * 100 < current[1] * (100 + min_delta) THEN FALSE
    ELSE TRUE

\* mutant of should_switch: with no current position the best score decides
should_switch_PositiveOnly(best, current, min_delta, cooldown_s, last_switch_ts, t) ==
    IF best = << >> THEN FALSE
    ELSE IF current = << >> THEN best[1] > 0
    ELSE IF current[1] <= 0 THEN best[1] > 0
    ELSE IF best[1] * 100 < current[1] * (100 + min_delta) THEN FALSE
    ELSE IF /\ cooldown_s # 0
            /\ last_switch_ts # NoTime /\ last_switch_ts # 0
            /\ (t - last_switch_ts) < cooldown_s THEN FALSE
    ELSE TRUE

\* mutant of should_switch: any strictly better score switches
should_switch_NoHysteresis(best, current, min_delta, cooldown_s, last_switch_ts, t) ==
    IF best = << >> THEN FALSE
    ELSE IF current = << >> THEN TRUE
    ELSE IF current[1] <= 0 THEN best[1] > 0
    ELSE IF best[1] <= current[1] THEN FALSE
    ELSE IF /\ cooldown_s # 0
            /\ last_switch_ts # NoTime /\ last_switch_ts # 0
            /\ (t - last_switch_ts) < cooldown_s THEN FALSE
    ELSE TRUE

\* scoring.should_switch(best, current, min_delta, cooldown_s, last_switch_ts)
\* called at time t; min_delta is in percent
should_switch(best, current, min_delta, cooldown_s, last_switch_ts, t) ==
    IF best = << >> THEN FALSE
    ELSE IF current = << >> THEN TRUE
    ELSE IF current[1] <= 0 THEN best[1] > 0
    ELSE IF best[1] * 100 < current[1] * (100 + min_delta) THEN FALSE
    ELSE IF /\ cooldown_s # 0
            /\ last_switch_ts # NoTime /\ last_switch_ts # 0
            /\ (t - last_switch_ts) < cooldown_s THEN FALSE
    ELSE TRUE

\* the calls of should_switch that are tried
SwitchCalls ==
    {a \in [fn : {"should_switch"}, best : OptScores, current : OptScores,
            min_delta : MinDeltas, cooldown_s : Cooldowns,
            last_switch_ts : {NoTime} \cup Times, t : Times] :
       a.last_switch_ts <= a.t}

\* one call of should_switch
apply_should_switch ==
    /\ fn = "none"
    /\ args.fn = "should_switch"
    /\ fn' = "should_switch"
    /\ ret' = should_switch(args.best, args.current, args.min_delta,
                            args.cooldown_s, args.last_switch_ts, args.t)
    /\ UNCHANGED <<ioVars, now, ksVars, lockVars, cycVars, args>>

\* ---------------------------------------------------------------- ops_guard

\* the gas price when reading w3.eth.gas_price raised
GasError == -1

\* the web3 handle passed to should_move: None, or one whose gas price reads
\* as a number or raises
NoWeb3 == [present |-> FALSE, gas_price |-> 0]

W3s == {NoWeb3} \cup [present : {TRUE}, gas_price : {GasError, 1, 2}]

\* the environment should_move reads, at its defaults
DefaultEnv ==
    [MIN_EDGE_SCORE |-> 0, MIN_EDGE_ETH |-> 0, MIN_EDGE_USD |-> 0,
     ETH_PRICE_USD |-> 0, EDGE_GAS_MULTIPLIER |-> 1]

Envs ==
    [MIN_EDGE_SCORE : {0, 2}, MIN_EDGE_ETH : {0, 3}, MIN_EDGE_USD : {0, 5},
     ETH_PRICE_USD : {0, 2}, EDGE_GAS_MULTIPLIER : {0, 1, 2}]

\* est_move_gas
GasEstimates == {0, 1, 2}

\* ops_guard._as_decimal: None counts as 0
AsDecimal(value) == IF value = << >> THEN 0 ELSE value[1]

\* should_move: gas_mult, a multiplier <= 0 is replaced by 1
GasMult(env) == IF env.EDGE_GAS_MULTIPLIER <= 0 THEN 1 ELSE env.EDGE_GAS_MULTIPLIER

\* should_move: expected_gain_eth
ExpectedGain(capital_eth, score_best, score_current) ==
    capital_eth * (score_best - AsDecimal(score_current))

\* should_move: required_gain = gas cost x multiplier
RequiredGain(est_move_gas, w3, env) == est_move_gas * w3.gas_price * GasMult(env)

\* mutant of should_move: the guard never declines
should_move_Always(capital_eth, score_best, score_current, est_move_gas, w3, env) ==
    [ok |-> TRUE, note |-> "edge:ok", gas_note |-> "gas=na"]

\* mutant of should_move: the delta is taken the wrong way round
should_move_Reversed(capital_eth, score_best, score_current, est_move_gas, w3, env) ==
    LET delta == AsDecimal(score_current) - score_best
        expected_gain == capital_eth * delta
    IN IF delta <= 0 THEN [ok |-> FALSE, note |-> "edge:delta<=0", gas_note |-> "gas=na"]
       ELSE IF expected_gain <= 0
              THEN [ok |-> FALSE, note |-> "edge:gain<=0", gas_note |-> "gas=na"]
       ELSE [ok |-> TRUE, note |-> "edge:ok", gas_note |-> "gas=na"]

\* mutant of should_move: a gain equal to the required gain passes
should_move_GasInclusive(capital_eth, score_best, score_current, est_move_gas, w3, env) ==
    LET delta == score_best - AsDecimal(score_current)
        expected_gain == capital_eth * delta
    IN IF delta <= 0 THEN [ok |-> FALSE, note |-> "edge:delta<=0", gas_note |-> "gas=na"]
       ELSE IF expected_gain <= 0
              THEN [ok |-> FALSE, note |-> "edge:gain<=0", gas_note |-> "gas=na"]
       ELSE IF /\ w3.present /\ w3.gas_price # GasError
               /\ expected_gain < RequiredGain(est_move_gas, w3, env)
              THEN [ok |-> FALSE, note |-> "edge:gas>", gas_note |-> "gas=na"]
       ELSE [ok |-> TRUE, note |-> "edge:ok", gas_note |-> "gas=na"]

\* ops_guard.should_move: (ok, note); note keeps the reason up to its figures,
\* gas_note is the tail of an "edge:ok" note
should_move(capital_eth, score_best, score_current, est_move_gas, w3, env) ==
    LET delta == score_best - AsDecimal(score_current)
        expected_gain == ExpectedGain(capital_eth, score_best, score_current)
    IN IF delta <= 0
         THEN [ok |-> FALSE, note |-> "edge:delta<=0", gas_note |-> "gas=na"]
       ELSE IF delta < env.MIN_EDGE_SCORE
         THEN [ok |-> FALSE, note |-> "edge:delta<min", gas_note |-> "gas=na"]
       ELSE IF expected_gain <= 0
         THEN [ok |-> FALSE, note |-> "edge:gain<=0", gas_note |-> "gas=na"]
       ELSE IF expected_gain < env.MIN_EDGE_ETH
         THEN [ok |-> FALSE, note |-> "edge:gain_eth<min", gas_note |-> "gas=na"]
       ELSE IF /\ env.MIN_EDGE_USD > 0
               /\ env.ETH_PRICE_USD > 0
               /\ expected_gain * env.ETH_PRICE_USD < env.MIN_EDGE_USD
         THEN [ok |-> FALSE, note |-> "edge:gain_usd<min", gas_note |-> "gas=na"]
       ELSE IF ~w3.present
         THEN [ok |-> TRUE, note |-> "edge:ok", gas_note |-> "gas=web3_missing"]
       ELSE IF w3.gas_price = GasError
         THEN [ok |-> TRUE, note |-> "edge:ok", gas_note |-> "gas=error"]
       ELSE IF expected_gain <= RequiredGain(est_move_gas, w3, env)
         THEN [ok |-> FALSE, note |-> "edge:gas>", gas_note |-> "gas=na"]
       ELSE [ok |-> TRUE, note |-> "edge:ok", gas_note |-> "gas=cost"]

\* the calls of should_move that are tried
MoveCalls ==
    [fn : {"should_move"}, capital_eth : Capitals, score_best : Scores,
     score_current : OptScores, est_move_gas : GasEstimates, w3 : W3s, env : Envs]

\* one call of should_move
apply_should_move ==
    /\ fn = "none"
    /\ args.fn = "should_move"
    /\ fn' = "should_move"
    /\ ret' = should_move(args.capital_eth, args.score_best, args.score_current,
                          args.est_move_gas, args.w3, args.env)
    /\ UNCHANGED <<ioVars, now, ksVars, lockVars, cycVars, args>>

\* --------------------------------------------------------------- settlement

\* r_net of one interval, in percent
Rates == {-5, 0, 5}

\* a reinvest ratio as configured, in percent; the range is not enforced on load
BaseRatios == {-50, 0, 50, 100, 150}

\* a reinvest ratio as settle_day receives it, in percent
Ratios == {0, 50, 100}

\* capital_before
SettleCapitals == {0, 1, 100}

\* profit_eth handed to effective_reinvest_ratio
Profits == {-1, 0, 1, 2}

\* FX_EUR_PER_ETH
FxRates == {-1, 0, 1, 2}

\* TREASURY_MIN_EUR, in hundredths
MinPayouts == {-100, 0, 50, 100, 250}

Min(a, b) == IF a <= b THEN a ELSE b

\* mutant of settle_day: a loss is split like a profit
settle_day_LossToTreasury(capital, r_net, reinvest_ratio) ==
    LET profit == capital * r_net
    IN [profit |-> profit,
        capital_new |-> capital * 10000 + reinvest_ratio * profit,
        treasury_delta |-> (100 - reinvest_ratio) * profit]

\* executor.settle_day with r_net and reinvest_ratio in percent: profit is in
\* hundredths of a capital unit, capital_new and treasury_delta in
\* ten-thousandths
settle_day(capital, r_net, reinvest_ratio) ==
    LET profit == capital * r_net
    IN [profit |-> profit,
        capital_new |-> capital * 10000 + reinvest_ratio * profit,
        treasury_delta |-> IF profit > 0 THEN (100 - reinvest_ratio) * profit ELSE 0]

\* the calls of settle_day that are tried
SettleCalls ==
    [fn : {"settle_day"}, capital : SettleCapitals, r_net : Rates,
     reinvest_ratio : Ratios]

\* one call of settle_day
apply_settle_day ==
    /\ fn = "none"
    /\ args.fn = "settle_day"
    /\ fn' = "settle_day"
    /\ ret' = settle_day(args.capital, args.r_net, args.reinvest_ratio)
    /\ UNCHANGED <<ioVars, now, ksVars, lockVars, cycVars, args>>

\* effective_reinvest_ratio: base = max(0.0, min(1.0, base_reinvest_ratio))
ClampRatio(base_reinvest_ratio) == Max(0, Min(100, base_reinvest_ratio))

\* mutant of effective_reinvest_ratio: the profit <= 0 test is missing
effective_reinvest_ratio_NoLossGuard(profit_eth, base_reinvest_ratio, fx_rate, min_payout_eur) ==
    LET base == ClampRatio(base_reinvest_ratio)
        treasury_ratio == 100 - base
    IN IF treasury_ratio <= 0 THEN 100
       ELSE IF profit_eth * treasury_ratio * Max(fx_rate, 0) >= Max(min_payout_eur, 0)
              THEN base
       ELSE 100

\* mutant of effective_reinvest_ratio: a share equal to the threshold is deferred
effective_reinvest_ratio_Strict(profit_eth, base_reinvest_ratio, fx_rate, min_payout_eur) ==
    LET base == ClampRatio(base_reinvest_ratio)
        treasury_ratio == 100 - base
    IN IF profit_eth <= 0 THEN 100
       ELSE IF treasury_ratio <= 0 THEN 100
       ELSE IF profit_eth * treasury_ratio * Max(fx_rate, 0) > Max(min_payout_eur, 0)
              THEN base
       ELSE 100

\* strategy.effective_reinvest_ratio, ratios in percent, the treasury share and
\* the threshold in hundredths of a euro
effective_reinvest_ratio(profit_eth, base_reinvest_ratio, fx_rate, min_payout_eur) ==
    LET base == ClampRatio(base_reinvest_ratio)
        treasury_ratio == 100 - base
        fx == Max(fx_rate, 0)
        pay_threshold == Max(min_payout_eur, 0)
        treasury_share_eur == profit_eth * treasury_ratio * fx
    IN IF profit_eth <= 0 THEN 100
       ELSE IF treasury_ratio <= 0 THEN 100
       ELSE IF treasury_share_eur >= pay_threshold THEN base
       ELSE 100

\* the calls of effective_reinvest_ratio that are tried
ReinvestCalls ==
    [fn : {"effective_reinvest_ratio"}, profit_eth : Profits,
     base_reinvest_ratio : BaseRatios, fx_rate : FxRates,
     min_payout_eur : MinPayouts]

\* one call of effective_reinvest_ratio
apply_effective_reinvest_ratio ==
    /\ fn = "none"
    /\ args.fn = "effective_reinvest_ratio"
    /\ fn' = "effective_reinvest_ratio"
    /\ ret' = effective_reinvest_ratio(args.profit_eth, args.base_reinvest_ratio,
                                       args.fx_rate, args.min_payout_eur)
    /\ UNCHANGED <<ioVars, now, ksVars, lockVars, cycVars, args>>

\* C18: settle_day returns profit = capital x rate, new capital = capital +
\* ratio x profit, and treasury delta = profit - ratio x profit when profit > 0
\* and 0 otherwise; settle_day(100, 5%, 50%) gives exactly 5, 102.5 and 2.5.
C18_SettleDay ==
    fn = "settle_day" =>
        /\ ret.profit = args.capital * args.r_net
        /\ ret.capital_new = args.capital * 10000 + args.reinvest_ratio * ret.profit
        /\ ret.profit > 0 =>
             ret.treasury_delta = 100 * ret.profit - args.reinvest_ratio * ret.profit
        /\ ret.profit <= 0 => ret.treasury_delta = 0
        /\ (args.capital = 100 /\ args.r_net = 5 /\ args.reinvest_ratio = 50) =>
             /\ ret.profit = 500
             /\ ret.capital_new = 1025000
             /\ ret.treasury_delta = 25000

\* a losing interval with half of the result reinvested: nothing for the treasury
C18_Witness ==
    /\ fn = "settle_day"
    /\ args.capital = 100
    /\ args.r_net = -5
    /\ args.reinvest_ratio = 50
    /\ ret.profit = -500
    /\ ret.capital_new = 975000
    /\ ret.treasury_delta = 0

\* C19: effective_reinvest_ratio returns 1.0 whenever profit <= 0, for every
\* base ratio, exchange rate and minimum-payout threshold.
C19_LossFullyReinvested ==
    (fn = "effective_reinvest_ratio" /\ args.profit_eth <= 0) => ret = 100

\* a zero profit with a 50% base ratio and no payout threshold
C19_Witness ==
    /\ fn = "effective_reinvest_ratio"
    /\ args.profit_eth = 0
    /\ args.base_reinvest_ratio = 50
    /\ args.min_payout_eur = 0
    /\ args.fx_rate = 1
    /\ ret = 100

\* the treasury-bound share of a call in fiat: profit x (1 - base) x fx
TreasuryShare(a) ==
    a.profit_eth * (100 - ClampRatio(a.base_reinvest_ratio)) * a.fx_rate

\* C20: for profit > 0 (and an exchange rate and a threshold that are not
\* negative), effective_reinvest_ratio returns 1.0 when the treasury-bound
\* share in fiat is below the minimum-payout threshold and the base ratio
\* clamped to [0,1] when the share is at or above it.
C20_PayoutThreshold ==
    (/\ fn = "effective_reinvest_ratio"
     /\ args.profit_eth > 0
     /\ args.fx_rate >= 0
     /\ args.min_payout_eur >= 0)
    => /\ TreasuryShare(args) < args.min_payout_eur => ret = 100
       /\ TreasuryShare(args) >= args.min_payout_eur =>
            ret = ClampRatio(args.base_reinvest_ratio)

\* a share of exactly the threshold is paid out at the base ratio
C20_Witness ==
    /\ fn = "effective_reinvest_ratio"
    /\ args.profit_eth = 1
    /\ args.base_reinvest_ratio = 50
    /\ args.fx_rate = 2
    /\ args.min_payout_eur = 100
    /\ ret = 50

\* ------------------------------------------ the persisted records as files
\* A file on storage is missing, torn (empty or cut short: what open("w")
\* leaves until the text is written and flushed) or holds a whole document.
Missing == [kind |-> "missing", doc |-> << >>]
Torn == [kind |-> "torn", doc |-> << >>]
Document(d) == [kind |-> "doc", doc |-> d]

\* an Optional number in JSON: null is << >>
ToJson(x) == IF x = NoTime THEN << >> ELSE <<x>>
FromJson(j) == IF j = << >> THEN NoTime ELSE j[1]

\* KillSwitchState.save: the document written
KillSwitchState_save(st) ==
    Document([consecutive_errors |-> st.consecutive_errors,
              last_error_time |-> ToJson(st.last_error_time),
              triggered |-> st.triggered,
              triggered_at |-> ToJson(st.triggered_at)])

\* KillSwitchState.load: the defaults for a missing or an unreadable file
KillSwitchState_load(file) ==
    IF file.kind = "missing" THEN KillSwitchState
    ELSE IF file.kind = "torn" THEN KillSwitchState
    ELSE [consecutive_errors |-> file.doc.consecutive_errors,
          last_error_time |-> FromJson(file.doc.last_error_time),
          triggered |-> file.doc.triggered,
          triggered_at |-> FromJson(file.doc.triggered_at)]

\* the fields of StrategyState that the model follows, with their defaults
PersistedState ==
    [pool_id |-> NoPool, score |-> 0, crisis_streak |-> 0, paused |-> FALSE,
     last_crisis_at |-> NoTime, last_switch_ts |-> NoTime]

\* StrategyState.save: the payload written
StrategyState_save(s) ==
    Document([pool_id |-> s.pool_id, score |-> s.score,
              crisis_streak |-> s.crisis_streak, paused |-> s.paused,
              last_crisis_at |-> ToJson(s.last_crisis_at),
              last_switch_ts |-> ToJson(s.last_switch_ts)])

\* StrategyState.load of a missing file or a whole document (json.load raises
\* on a torn one)
StrategyState_load(file) ==
    IF file.kind = "missing" THEN PersistedState
    ELSE [pool_id |-> file.doc.pool_id, score |-> file.doc.score,
          crisis_streak |-> file.doc.crisis_streak, paused |-> file.doc.paused,
          last_crisis_at |-> FromJson(file.doc.last_crisis_at),
          last_switch_ts |-> FromJson(file.doc.last_switch_ts)]

\* mutant of FormatMicro: the digits after the sixth are cut off
FormatMicro_Truncate(value, scale) == value \div scale

\* f"{value:.6f}" of an amount given in 1/scale millionths: the nearest millionth
FormatMicro(value, scale) == (2 * value + scale) \div (2 * scale)

\* store_decimal_file of an amount in tenths of a millionth: six decimals
store_decimal_file(value) == Document(FormatMicro(value, 10))

\* load_decimal_file, amounts in tenths of a millionth
load_decimal_file(file, default) ==
    IF file.kind = "missing" THEN default
    ELSE IF file.kind = "torn" THEN default
    ELSE file.doc * 10

\* capital.txt's default of 100.0, in tenths of a millionth
DefaultCapital == 1000000000

\* the values whose round trip is tried
KillSwitchStates ==
    [consecutive_errors : 0..2, last_error_time : {NoTime, 1},
     triggered : BOOLEAN, triggered_at : {NoTime, 1}]
PersistedStates ==
    [pool_id : {NoPool, "A"}, score : {0, 1}, crisis_streak : {0, 2},
     paused : BOOLEAN, last_crisis_at : {NoTime, 1}, last_switch_ts : {NoTime, 2}]
Amounts == {0, 4, 5, 10, 15, 19, 25000000}

RoundTripCalls ==
    [fn : {"KillSwitchState"}, value : KillSwitchStates]
    \cup [fn : {"StrategyState"}, value : PersistedStates]
    \cup [fn : {"decimal_file"}, value : Amounts]

\* KillSwitchState.save, then KillSwitchState.load of the file written
apply_KillSwitchState_round_trip ==
    /\ fn = "none"
    /\ args.fn = "KillSwitchState"
    /\ fn' = "KillSwitchState"
    /\ ret' = KillSwitchState_load(KillSwitchState_save(args.value))
    /\ UNCHANGED <<ioVars, now, ksVars, lockVars, cycVars, args>>

\* StrategyState.save, then StrategyState.load of the file written
apply_StrategyState_round_trip ==
    /\ fn = "none"
    /\ args.fn = "StrategyState"
    /\ fn' = "StrategyState"
    /\ ret' = StrategyState_load(StrategyState_save(args.value))
    /\ UNCHANGED <<ioVars, now, ksVars, lockVars, cycVars, args>>

\* store_decimal_file, then load_decimal_file of the file written
apply_decimal_file_round_trip ==
    /\ fn = "none"
    /\ args.fn = "decimal_file"
    /\ fn' = "decimal_file"
    /\ ret' = load_decimal_file(store_decimal_file(args.value), DefaultCapital)
    /\ UNCHANGED <<ioVars, now, ksVars, lockVars, cycVars, args>>

\* a record has been saved and loaded again
RoundTripped == fn \in {"KillSwitchState", "StrategyState", "decimal_file"}

InitFunctions ==
    /\ now = 0
    /\ KillSwitchInit(3, 2)
    /\ ks_op = "init" /\ check_raised = FALSE /\ run_errors = 0 /\ run_clean = TRUE
    /\ ks_before = KillSwitchState
    /\ LockIdle
    /\ IoIdle
    /\ CycleIdle
    /\ fn = "none"
    /\ args \in SwitchCalls \cup MoveCalls \cup SettleCalls \cup ReinvestCalls
                \cup RoundTripCalls
    /\ ret = << >>

NextFunctions ==
    \/ apply_should_switch
    \/ apply_should_move
    \/ apply_settle_day
    \/ apply_effective_reinvest_ratio
    \/ apply_KillSwitchState_round_trip
    \/ apply_StrategyState_round_trip
    \/ apply_decimal_file_round_trip

SpecFunctions == InitFunctions /\ [][NextFunctions]_vars

\* the cooldown window of a should_switch call is open at the time of the call
InCooldown(a) ==
    /\ a.cooldown_s > 0
    /\ a.last_switch_ts # NoTime
    /\ (a.t - a.last_switch_ts) < a.cooldown_s

\* C11: should_switch never returns true when current is non-null and the best
\* score is below the current score, whatever the scores' signs, the min_delta
\* (>= 0) and the cooldown.
C11_NeverSwitchToLower ==
    (/\ fn = "should_switch"
     /\ args.best # << >>
     /\ args.current # << >>
     /\ args.best[1] < args.current[1])
    => ~ret

\* a call with a positive current score, a lower best score and no margin at all
C11_Witness ==
    /\ fn = "should_switch"
    /\ args.current = <<2>>
    /\ args.best = <<1>>
    /\ args.min_delta = 0
    /\ args.cooldown_s = 0
    /\ ~ret

\* C12 as stated: a should_switch call made inside the cooldown window of
\* last_switch_ts returns false for all values of best and current.
C12_Original ==
    (fn = "should_switch" /\ InCooldown(args)) => ~ret

\* C12 amended: a should_switch call made inside the cooldown window of
\* last_switch_ts returns false whenever a current position with a positive
\* score is held, whatever the score delta.
C12_CooldownSuppresses ==
    (/\ fn = "should_switch"
     /\ InCooldown(args)
     /\ args.current # << >>
     /\ args.current[1] > 0)
    => ~ret

\* inside the window a best score that clears the threshold is still refused
C12_Witness ==
    /\ fn = "should_switch"
    /\ InCooldown(args)
    /\ args.current = <<1>>
    /\ args.best = <<2>>
    /\ args.min_delta = DeltaSwitchPct
    /\ ~ret

\* C13 as stated: with no current position and a non-null best, should_switch
\* returns true exactly when the best score is positive.
C13_Original ==
    (fn = "should_switch" /\ args.current = << >> /\ args.best # << >>)
    => (ret <=> args.best[1] > 0)

\* C13 amended: with no current position and a non-null best, should_switch
\* returns true whatever the best score is.
C13_NoCurrentSwitches ==
    (fn = "should_switch" /\ args.current = << >> /\ args.best # << >>) => ret

\* no current position, a negative best score, and the call returned true
C13_Witness ==
    /\ fn = "should_switch"
    /\ args.current = << >>
    /\ args.best = <<-1>>
    /\ ret

\* C15: should_move never returns true when score_best <= score_current,
\* whatever the capital, the gas estimate, the thresholds and the web3 handle.
C15_NoMoveWithoutEdge ==
    (/\ fn = "should_move"
     /\ args.score_current # << >>
     /\ args.score_best <= args.score_current[1])
    => ~ret.ok

\* equal scores, capital to move, no thresholds and no web3 handle: rejected
C15_Witness ==
    /\ fn = "should_move"
    /\ args.score_current = <<1>>
    /\ args.score_best = 1
    /\ args.capital_eth = 2
    /\ args.env.EDGE_GAS_MULTIPLIER = 1
    /\ ~args.w3.present
    /\ ~ret.ok
    /\ ret.note = "edge:delta<=0"

\* the gas price of a should_move call can be read
GasReadable(a) == a.w3.present /\ a.w3.gas_price # GasError

\* C16 as stated: should_move returns true only when expected_gain >
\* cost_with_margin, the estimated gas units x the live gas price x the
\* safety multiplier.
C16_Original ==
    (fn = "should_move" /\ ret.ok) =>
        /\ GasReadable(args)
        /\ ExpectedGain(args.capital_eth, args.score_best, args.score_current)
             > RequiredGain(args.est_move_gas, args.w3, args.env)

\* C16 amended: when a web3 handle is given and its gas price can be read,
\* should_move returns true only when expected_gain > cost_with_margin (a
\* multiplier <= 0 counting as 1), and a rejection for gas means expected_gain
\* <= cost_with_margin; with no web3 handle, or when the gas price cannot be
\* read, the cost is not compared.
C16_GainAboveCost ==
    /\ (fn = "should_move" /\ ret.ok /\ GasReadable(args)) =>
         ExpectedGain(args.capital_eth, args.score_best, args.score_current)
           > RequiredGain(args.est_move_gas, args.w3, args.env)
    /\ (fn = "should_move" /\ ~ret.ok /\ ret.note = "edge:gas>") =>
         /\ GasReadable(args)
         /\ ExpectedGain(args.capital_eth, args.score_best, args.score_current)
              <= RequiredGain(args.est_move_gas, args.w3, args.env)
    /\ (fn = "should_move" /\ ret.ok /\ ~GasReadable(args)) =>
         ret.gas_note \in {"gas=web3_missing", "gas=error"}

\* a gain of 4 against a cost with margin of 2 x 1 x 2 = 4 is rejected for gas
C16_Witness ==
    /\ fn = "should_move"
    /\ GasReadable(args)
    /\ ExpectedGain(args.capital_eth, args.score_best, args.score_current) = 4
    /\ RequiredGain(args.est_move_gas, args.w3, args.env) = 4
    /\ args.env.EDGE_GAS_MULTIPLIER = 2
    /\ ~ret.ok
    /\ ret.note = "edge:gas>"

\* C17: with score_current None, should_move rejects the move and gives the
\* reason "edge:score_current_missing", even when score_best is positive.
C17_MissingCurrentRejected ==
    (fn = "should_move" /\ args.score_current = << >>) =>
        /\ ~ret.ok
        /\ ret.note = "edge:score_current_missing"

\* ----------------------------------------------------------------- strategy

\* stop_loss_daily over one interval, in the units of RNets (the default -0.10)
StopLoss == -1

\* autopause.streak (the default)
AutopauseStreak == 3

\* what one cycle's fetch and eligibility filter say about a pool
Unlisted == [listed |-> FALSE, eligible |-> FALSE, score |-> 0, r_net |-> 0]

\* normalized_score is r_day when r_day <= 0 and r_net = r_day - cost, so a pool
\* with a positive net return has a positive score
PoolInfos ==
    {Unlisted} \cup
    {i \in [listed : {TRUE}, eligible : BOOLEAN, score : Scores, r_net : RNets] :
        i.r_net > 0 => i.score > 0}

PoolViews == [Pools -> PoolInfos]

\* select_best_pool: the candidates (adapter, allow/deny list, assets, TVL)
Eligible(view) == {p \in Pools : view[p].eligible}

\* select_best_pool: ranking[0]; the fetch order breaks ties
BestSet(view) ==
    {p \in Eligible(view) : \A q \in Eligible(view) : view[q].score <= view[p].score}

\* mutant of HasCurrent: the held pool is kept whenever the fetch lists it
HasCurrent_Listed(view, s) ==
    /\ s.pool_id # NoPool
    /\ view[s.pool_id].listed

\* select_best_pool: current, dropped when it is not listed or not eligible
HasCurrent(view, s) ==
    /\ s.pool_id # NoPool
    /\ view[s.pool_id].listed
    /\ view[s.pool_id].eligible

\* select_best_pool: the should_switch call (no cooldown is passed)
SwitchDecision(view, best, s) ==
    should_switch(<<view[best].score>>,
                  IF HasCurrent(view, s) THEN <<view[s.pool_id].score>> ELSE << >>,
                  cfg.delta_switch, 0, NoTime, now)

\* select_best_pool: best if should_switch, else current or best
select_best_pool(view, best, s) ==
    IF SwitchDecision(view, best, s) THEN best
    ELSE IF HasCurrent(view, s) THEN s.pool_id ELSE best

\* the switch policy cycle after cycle: select_best_pool is applied to the
\* cycle's pools and the held pool; the state then holds the selected pool, or,
\* when the move was skipped, the pool held before
policy_cycle ==
    /\ \E view \in PoolViews : \E best \in BestSet(view) : \E skipped \in BOOLEAN :
         /\ fn' = "select_best_pool"
         /\ args' = view
         /\ ret' = select_best_pool(view, best, state)
         /\ state' = [state EXCEPT !.pool_id =
                        IF skipped /\ state.pool_id # NoPool THEN state.pool_id
                        ELSE select_best_pool(view, best, state)]
    /\ UNCHANGED <<ioVars, now, ksVars, lockVars, cfg, cpc, cyc, outcome, notified>>

InitSwitchPolicy ==
    /\ now = 0
    /\ KillSwitchInit(3, 2)
    /\ ks_op = "init" /\ check_raised = FALSE /\ run_errors = 0 /\ run_clean = TRUE
    /\ ks_before = KillSwitchState
    /\ LockIdle
    /\ IoIdle
    /\ FnIdle
    /\ cfg \in [dry_run : {FALSE}, onchain : {TRUE}, capital : {2},
               delta_switch : MinDeltas]
    /\ state = StrategyState
    /\ cpc = "idle"
    /\ cyc = FreshCycle
    /\ outcome = "none"
    /\ notified = FALSE

NextSwitchPolicy == policy_cycle

SpecSwitchPolicy == InitSwitchPolicy /\ [][NextSwitchPolicy]_vars

\* all pools of a cycle are eligible with positive scores that differ by less
\* than the factor (1 + min_delta) in either direction
WithinBand(view) ==
    /\ \A p \in Pools : view[p].eligible /\ view[p].score > 0
    /\ \A p \in Pools : \A q \in Pools :
         view[p].score * 100 < view[q].score * (100 + cfg.delta_switch)

\* C14: with min_delta > 0, in a cycle in which the two pools are eligible with
\* positive scores less than the factor (1 + min_delta) apart, the switch
\* policy keeps the pool that is held: it never switches between them.
C14_NoOscillation ==
    [][ (/\ fn' = "select_best_pool"
         /\ state.pool_id \in Pools
         /\ cfg.delta_switch > 0
         /\ WithinBand(args'))
        => ret' = state.pool_id ]_vars

\* pool A is held and kept although pool B scores higher inside the band
C14_Witness ==
    /\ fn = "select_best_pool"
    /\ cfg.delta_switch = 200
    /\ WithinBand(args)
    /\ args["A"].score = 1
    /\ args["B"].score = 2
    /\ state.pool_id = "A"
    /\ ret = "A"

\* the exits of _run_strategy before the selection: --print-status returns,
\* a missing config raises SystemExit, the multi-strategy branch raises
\* (execute_multi_strategy is handed the balances dict as its holdings)
EarlyExits == {"print_status", "config_error", "multi_strategy"}

\* main(): kill_switch.check(), then the with-block around _run_strategy
main_start ==
    /\ cpc \in {"idle", "done"}
    /\ IF CheckRaises(ks)
         THEN /\ outcome' = "kill_switch"
              /\ cpc' = "done"
              /\ cyc' = FreshCycle
         ELSE /\ outcome' = "running"
              /\ cpc' = "select"
              /\ cyc' = [FreshCycle EXCEPT !.paused_at_start = state.paused]
    /\ notified' = FALSE
    /\ UNCHANGED <<ioVars, fnVars, now, ksVars, lockVars, cfg, state>>

\* _run_strategy up to and including select_best_pool
run_select ==
    /\ cpc = "select"
    /\ \/ \E early \in EarlyExits :
            /\ outcome' = early
            /\ cpc' = "done"
            /\ UNCHANGED cyc
       \/ \E view \in PoolViews :
            /\ Eligible(view) = {}
            /\ outcome' = IF \A p \in Pools : ~view[p].listed
                            THEN "no_pools" ELSE "no_eligible"
            /\ cpc' = "done"
            /\ UNCHANGED cyc
       \/ \E view \in PoolViews : \E best \in BestSet(view) :
            LET prev == state.pool_id
                known == prev # NoPool /\ view[prev].listed
                sel == select_best_pool(view, best, state)
            IN /\ cyc' = [cyc EXCEPT
                     !.prev_pool = prev,
                     !.prev_known = known,
                     !.prev_score = IF known THEN view[prev].score ELSE state.score,
                     !.prev_rnet = IF known THEN view[prev].r_net ELSE 0,
                     !.sel_pool = sel,
                     !.sel_score = view[sel].score,
                     !.sel_rnet = view[sel].r_net,
                     !.switch_ok = SwitchDecision(view, best, state)]
               /\ cpc' = "move"
               /\ UNCHANGED outcome
    /\ UNCHANGED <<ioVars, fnVars, now, ksVars, lockVars, cfg, state, notified>>

\* ----------------------------------------------------------------- executor

\* required_gain as should_move computes it from the gas price, or GasError
GasQuotes == {GasError, 1, 4}

\* what an adapter's withdraw_all / deposit_all hands back: a status and
\* whether the withdraw_tx / deposit_tx key is present; the adapters attach a
\* transaction hash to ok results only; "raised" is an exception leaving the call
NonOkStatuses == {"no_assets", "no_shares", "blocked", "error", "not_implemented"}

VenueResults ==
    [status : {"ok"}, tx : BOOLEAN] \cup
    [status : NonOkStatuses \cup {"raised"}, tx : {FALSE}]

\* move_capital_smart: the guards before any venue call, in source order
MoveStatus(gas_ok, cur_adapter, next_adapter, in_cooldown, required_gain) ==
    IF ~cfg.onchain THEN "onchain_disabled"
    ELSE IF ~gas_ok THEN "SKIP:gas"
    ELSE IF ~cur_adapter /\ ~next_adapter THEN "SKIP:no_adapters"
    ELSE IF /\ in_cooldown
            /\ ~cfg.dry_run
            /\ cyc.prev_pool # cyc.sel_pool
            /\ state.last_portfolio_move THEN "SKIP:cooldown"
    ELSE IF ~should_move(cfg.capital, cyc.sel_score, <<cyc.prev_score>>, 1,
                         [present |-> TRUE, gas_price |-> required_gain],
                         DefaultEnv).ok
         THEN "SKIP:edge"
    ELSE "notes"

\* move_capital_smart: the condition of the withdraw branch
WithdrawDue(c) ==
    /\ c.prev_pool # NoPool
    /\ c.sel_pool # NoPool
    /\ c.prev_pool # c.sel_pool
    /\ c.cur_adapter

\* move_capital_smart: the condition of the deposit branch
DepositDue(c) == c.sel_pool # NoPool /\ c.next_adapter

\* mutant of WithdrawMoved: any withdraw result counts as a movement
WithdrawMoved_Any(res) == TRUE

\* move_capital_smart: status == "ok" and tx_hash
WithdrawMoved(res) == res.status = "ok" /\ res.tx

\* move_capital_smart: res.get("deposit_tx")
DepositMoved(res) == res.tx

\* mutant of StepAfterWithdraw: a failed withdraw is tried again
StepAfterWithdraw_Retry(c, res) ==
    IF res.status # "ok" THEN "withdraw"
    ELSE IF DepositDue(c) THEN "deposit" ELSE "after_move"

\* move_capital_smart: control falls from the withdraw branch to the deposit
\* branch whatever the withdraw returned
StepAfterWithdraw(c, res) == IF DepositDue(c) THEN "deposit" ELSE "after_move"

\* move_capital_smart: what a dry run appends to notes in place of the calls
DryNotes(c) ==
    (IF WithdrawDue(c) THEN <<[step |-> "withdraw", tag |-> "dry"]>> ELSE << >>)
    \o (IF DepositDue(c) THEN <<[step |-> "deposit", tag |-> "dry"]>> ELSE << >>)

\* mutant of StepAfterGuards: the dry_run flag is not looked at
StepAfterGuards_Live(c, status, dry_run) ==
    IF status # "notes" THEN "after_move"
    ELSE IF WithdrawDue(c) THEN "withdraw"
    ELSE IF DepositDue(c) THEN "deposit"
    ELSE "after_move"

\* move_capital_smart: where control goes once the guards have passed
StepAfterGuards(c, status, dry_run) ==
    IF status # "notes" \/ dry_run THEN "after_move"
    ELSE IF WithdrawDue(c) THEN "withdraw"
    ELSE IF DepositDue(c) THEN "deposit"
    ELSE "after_move"

\* move_capital_smart from its first line to the first venue call
move_guards ==
    /\ cpc = "move"
    /\ \E gas_ok \in BOOLEAN, cur_ad \in BOOLEAN, next_ad \in BOOLEAN,
          in_cooldown \in BOOLEAN, required_gain \in GasQuotes :
         LET cur_adapter == cyc.prev_pool # NoPool /\ cur_ad
             status == MoveStatus(gas_ok, cur_adapter, next_ad, in_cooldown, required_gain)
             c == [cyc EXCEPT
                     !.pstatus = status,
                     !.cur_adapter = cur_adapter,
                     !.next_adapter = next_ad,
                     !.guard = IF status = "notes" THEN "ok"
                               ELSE IF status = "SKIP:edge" THEN "declined"
                               ELSE "none"]
         IN /\ cyc' = IF status = "notes" /\ cfg.dry_run
                         THEN [c EXCEPT !.notes = DryNotes(c)]
                         ELSE c
            /\ cpc' = StepAfterGuards(c, status, cfg.dry_run)
    /\ UNCHANGED <<ioVars, fnVars, now, ksVars, lockVars, cfg, state, outcome, notified>>

\* move_capital_smart: current_adapter.withdraw_all()
venue_withdraw ==
    /\ cpc = "withdraw"
    /\ \E res \in VenueResults :
         LET call == [op |-> "withdraw_all", pool |-> cyc.prev_pool, status |-> res.status]
         IN IF res.status = "raised"
              THEN /\ cyc' = [cyc EXCEPT !.calls = Append(@, call)]
                   /\ cpc' = "done"
                   /\ outcome' = "venue_raised"
              ELSE /\ cyc' = [cyc EXCEPT !.calls = Append(@, call),
                                         !.notes = Append(@, [step |-> "withdraw",
                                                              tag |-> res.status]),
                                         !.movement = @ \/ WithdrawMoved(res)]
                   /\ cpc' = StepAfterWithdraw(cyc, res)
                   /\ UNCHANGED outcome
    /\ UNCHANGED <<ioVars, fnVars, now, ksVars, lockVars, cfg, state, notified>>

\* move_capital_smart: next_adapter.deposit_all()
venue_deposit ==
    /\ cpc = "deposit"
    /\ \E res \in VenueResults :
         LET call == [op |-> "deposit_all", pool |-> cyc.sel_pool, status |-> res.status]
         IN IF res.status = "raised"
              THEN /\ cyc' = [cyc EXCEPT !.calls = Append(@, call)]
                   /\ cpc' = "done"
                   /\ outcome' = "venue_raised"
              ELSE /\ cyc' = [cyc EXCEPT !.calls = Append(@, call),
                                         !.notes = Append(@, [step |-> "deposit",
                                                              tag |-> res.status]),
                                         !.movement = @ \/ DepositMoved(res)]
                   /\ cpc' = "after_move"
                   /\ UNCHANGED outcome
    /\ UNCHANGED <<ioVars, fnVars, now, ksVars, lockVars, cfg, state, notified>>

\* _run_strategy: portfolio_status.startswith("SKIP")
IsSkip(status) == status \in {"SKIP:gas", "SKIP:no_adapters", "SKIP:cooldown", "SKIP:edge"}

\* _run_strategy: active_pool_id after the SKIP handling
ActivePoolId(c) == IF IsSkip(c.pstatus) THEN c.prev_pool ELSE c.sel_pool

\* _run_strategy: state.last_switch_ts = time.time() runs
SwitchStamped(c) == ActivePoolId(c) # c.prev_pool /\ ~IsSkip(c.pstatus)

\* _run_strategy: working_pool is the previous candidate on a SKIP when the
\* fetch still lists it, the selected pool otherwise
WorkingIsPrevious(c) == IsSkip(c.pstatus) /\ c.prev_known

\* _run_strategy: state.pool_id = active_pool_id or working_pool.get("pool_id")
PersistedPoolId(c) ==
    IF ActivePoolId(c) # NoPool THEN ActivePoolId(c)
    ELSE IF WorkingIsPrevious(c) THEN c.prev_pool ELSE c.sel_pool

\* _run_strategy: crisis_flag = r_net_interval < stop_loss_interval
CrisisFlag(c) ==
    (IF WorkingIsPrevious(c) THEN c.prev_rnet ELSE c.sel_rnet) < StopLoss

\* the tail of move_capital_smart (the capital-move timestamp) and the rest of
\* _run_strategy: SKIP handling, crisis streak, autopause, resume, state save,
\* log and notification, kill_switch.record_success()
settle_and_finish ==
    /\ cpc = "after_move"
    /\ CrisisFlag(cyc) => state.crisis_streak < MaxStreak
    /\ \E resume_ready \in BOOLEAN, resume_tx \in BOOLEAN :
         LET stamp == cyc.movement /\ ~cfg.dry_run
             crisis == CrisisFlag(cyc)
             streak == IF crisis THEN state.crisis_streak + 1 ELSE 0
             autopause == /\ AutopauseStreak > 0
                          /\ crisis
                          /\ streak >= AutopauseStreak
                          /\ ~state.paused
             resumed == /\ state.paused
                        /\ ~crisis
                        /\ ~autopause
                        /\ resume_ready
                        /\ resume_tx
         IN /\ cyc' = [cyc EXCEPT !.stamped = stamp,
                                  !.active_pool = ActivePoolId(cyc),
                                  !.switch_stamped = SwitchStamped(cyc)]
            /\ state' = [pool_id |-> PersistedPoolId(cyc),
                         score |-> IF WorkingIsPrevious(cyc)
                                     THEN cyc.prev_score ELSE cyc.sel_score,
                         paused |-> IF resumed THEN FALSE
                                    ELSE (state.paused \/ autopause),
                         crisis_streak |-> IF resumed THEN 0 ELSE streak,
                         last_portfolio_move |-> state.last_portfolio_move \/ stamp]
    /\ notified' = TRUE
    /\ ks' = AfterRecordSuccess(ks)
    /\ outcome' = "completed"
    /\ cpc' = "done"
    /\ UNCHANGED <<ioVars, fnVars, now, threshold, reset_timeout, ks_op, check_raised,
                   run_errors, run_clean, ks_before, lockVars, cfg>>


Init ==
    /\ now = 0
    /\ KillSwitchInit(3, 2)
    /\ ks_op = "init" /\ check_raised = FALSE /\ run_errors = 0 /\ run_clean = TRUE
    /\ ks_before = KillSwitchState
    /\ LockIdle
    /\ IoIdle
    /\ FnIdle
    /\ cfg \in [dry_run : BOOLEAN, onchain : BOOLEAN, capital : Capitals,
               delta_switch : {DeltaSwitchPct}]
    /\ state = StrategyState
    /\ cpc = "idle"
    /\ cyc = FreshCycle
    /\ outcome = "none"
    /\ notified = FALSE

Next ==
    \/ main_start
    \/ run_select
    \/ move_guards
    \/ venue_withdraw
    \/ venue_deposit
    \/ settle_and_finish

Spec == Init /\ [][Next]_vars

\* the venue calls of the current cycle, in the order they were made
VenueCalls == cyc.calls

Completed == cpc = "done" /\ outcome = "completed"

\* C3: a cycle in which a venue call returned error or not_implemented, or in
\* which the venue rejected the transaction (the call raised), ends with a
\* positive consecutive-error count in the kill switch and with its
\* log/notification step done.
C3_VenueErrorRecorded ==
    (/\ cpc = "done"
     /\ \E i \in 1..Len(VenueCalls) :
          VenueCalls[i].status \in {"error", "not_implemented", "raised"})
    => (ks.consecutive_errors > 0 /\ notified)

\* C4: a cycle that started with paused = TRUE makes no withdraw_all and no
\* deposit_all call.
C4_PausedMovesNothing == cyc.paused_at_start => VenueCalls = << >>

C9_AtMostOneMove ==
    /\ Len(VenueCalls) <= 2
    /\ \A i \in 1..Len(VenueCalls) : \A j \in 1..Len(VenueCalls) :
         VenueCalls[i].op = VenueCalls[j].op => i = j
    /\ \A i \in 1..Len(VenueCalls) :
         /\ VenueCalls[i].op = "withdraw_all" =>
              /\ i = 1
              /\ cyc.prev_pool # NoPool
              /\ VenueCalls[i].pool = cyc.prev_pool
         /\ VenueCalls[i].op = "deposit_all" =>
              /\ VenueCalls[i].pool = cyc.sel_pool
              /\ cyc.sel_pool # cyc.prev_pool

\* a completed cycle that withdrew from the held pool and then deposited
C9_Witness ==
    /\ Completed
    /\ Len(VenueCalls) = 2
    /\ VenueCalls[1].op = "withdraw_all"
    /\ VenueCalls[2].op = "deposit_all"
    /\ VenueCalls[1].pool # VenueCalls[2].pool

\* C10: a venue call that returned a status other than ok records no
\* capital-move timestamp (a cycle stamps last_portfolio_move only if one of
\* its calls returned ok), and the operation that returned it is not called
\* again in that cycle.
C10_NonOkMovesNothing ==
    /\ (Completed /\ cyc.stamped) =>
         \E i \in 1..Len(VenueCalls) : VenueCalls[i].status = "ok"
    /\ \A i \in 1..Len(VenueCalls) :
         VenueCalls[i].status # "ok" =>
           \A j \in 1..Len(VenueCalls) :
             VenueCalls[j].op = VenueCalls[i].op => j = i

\* a completed cycle whose withdraw and deposit both returned a non-ok status
\* and that recorded no capital-move timestamp
C10_Witness ==
    /\ Completed
    /\ Len(VenueCalls) = 2
    /\ VenueCalls[1].status = "error"
    /\ VenueCalls[2].status = "blocked"
    /\ ~cyc.stamped
    /\ ~state.last_portfolio_move

\* ---------------------------------------------------------------- run_lock

\* the ways _run_strategy ends inside the with-block of main()
BodyExits == {"return", "early_return", "exception"}

\* mutant of IsFresh: the comparison reversed
IsFresh_Reversed(age) == age > StaleAfter

\* RunLock.__enter__: lock_age < self.timeout_seconds
IsFresh(age) == age < StaleAfter

\* mutant of ExitRuns: the lock is released by a call after the body, not by a
\* context manager, so an exception skips the release
ExitRuns_NoFinally(kind) == kind # "exception"

\* main(): `with acquire_run_lock(): _run_strategy(...)` runs __exit__ however
\* the body ends
ExitRuns(kind) == kind \in BodyExits

\* RunLock.__enter__: if self.lock_file.exists()
Enter_exists(p) ==
    /\ pc[p] = "start"
    /\ pc' = [pc EXCEPT ![p] = IF lock.exists THEN "stat" ELSE "write"]
    /\ UNCHANGED <<ioVars, fnVars, now, ksVars, cycVars, lock, acquired, lock_error, seen_age, body_exit>>

\* RunLock.__enter__: lock_age = time.time() - stat().st_mtime, and the busy test;
\* stat() of a file removed meanwhile raises OSError
Enter_stat(p) ==
    /\ pc[p] = "stat"
    /\ IF ~lock.exists
         THEN /\ pc' = [pc EXCEPT ![p] = "failed"]
              /\ lock_error' = [lock_error EXCEPT ![p] = "cannot_access"]
              /\ UNCHANGED seen_age
         ELSE /\ seen_age' = [seen_age EXCEPT ![p] = now - lock.mtime]
              /\ IF IsFresh(now - lock.mtime)
                   THEN /\ pc' = [pc EXCEPT ![p] = "failed"]
                        /\ lock_error' = [lock_error EXCEPT ![p] = "busy"]
                   ELSE /\ pc' = [pc EXCEPT ![p] = "unlink"]
                        /\ UNCHANGED lock_error
    /\ UNCHANGED <<ioVars, fnVars, now, ksVars, cycVars, lock, acquired, body_exit>>

\* RunLock.__enter__: self.lock_file.unlink() of the stale lock
Enter_unlink(p) ==
    /\ pc[p] = "unlink"
    /\ IF ~lock.exists
         THEN /\ pc' = [pc EXCEPT ![p] = "failed"]
              /\ lock_error' = [lock_error EXCEPT ![p] = "cannot_access"]
              /\ UNCHANGED lock
         ELSE /\ lock' = NoFile
              /\ pc' = [pc EXCEPT ![p] = "write"]
              /\ UNCHANGED lock_error
    /\ UNCHANGED <<ioVars, fnVars, now, ksVars, cycVars, acquired, seen_age, body_exit>>

\* RunLock.__enter__: write_text(pid, time) and acquired = True
Enter_write(p) ==
    /\ pc[p] = "write"
    /\ lock' = [exists |-> TRUE, mtime |-> now, pid |-> p]
    /\ acquired' = [acquired EXCEPT ![p] = TRUE]
    /\ pc' = [pc EXCEPT ![p] = "body"]
    /\ UNCHANGED <<ioVars, fnVars, now, ksVars, cycVars, lock_error, seen_age, body_exit>>

\* _run_strategy inside the with-block: it returns, returns early or raises
RunBody(p) ==
    /\ pc[p] = "body"
    /\ \E kind \in BodyExits :
        /\ body_exit' = [body_exit EXCEPT ![p] = kind]
        /\ pc' = [pc EXCEPT ![p] = IF ExitRuns(kind) THEN "exit" ELSE "done"]
    /\ UNCHANGED <<ioVars, fnVars, now, ksVars, cycVars, lock, acquired, lock_error, seen_age>>

\* the process dies inside the cycle (no handler runs)
Crash(p) ==
    /\ pc[p] = "body"
    /\ pc' = [pc EXCEPT ![p] = "crashed"]
    /\ UNCHANGED <<ioVars, fnVars, now, ksVars, cycVars, lock, acquired, lock_error, seen_age, body_exit>>

\* RunLock.__exit__: if self.acquired and self.lock_file.exists()
Exit_exists(p) ==
    /\ pc[p] = "exit"
    /\ pc' = [pc EXCEPT ![p] = IF acquired[p] /\ lock.exists THEN "exit_unlink" ELSE "done"]
    /\ UNCHANGED <<ioVars, fnVars, now, ksVars, cycVars, lock, acquired, lock_error, seen_age, body_exit>>

\* RunLock.__exit__: self.lock_file.unlink(), an OSError is swallowed
Exit_unlink(p) ==
    /\ pc[p] = "exit_unlink"
    /\ lock' = NoFile
    /\ pc' = [pc EXCEPT ![p] = "done"]
    /\ UNCHANGED <<ioVars, fnVars, now, ksVars, cycVars, acquired, lock_error, seen_age, body_exit>>

StepRunLock(p) ==
    \/ Enter_exists(p) \/ Enter_stat(p) \/ Enter_unlink(p) \/ Enter_write(p)
    \/ RunBody(p) \/ Crash(p) \/ Exit_exists(p) \/ Exit_unlink(p)

\* p is inside __enter__ or __exit__
InLockCode(p) == pc[p] \in {"stat", "unlink", "write", "exit_unlink"}

InitRunLock ==
    /\ now = 0
    /\ KillSwitchInit(3, 2)
    /\ ks_op = "init" /\ check_raised = FALSE /\ run_errors = 0 /\ run_clean = TRUE
    /\ ks_before = KillSwitchState
    /\ LockIdle
    /\ IoIdle
    /\ CycleIdle
    /\ FnIdle

NextRunLock == Tick \/ \E p \in Procs : StepRunLock(p)

\* overlapping invocations: every interleaving of their steps
SpecRunLock == InitRunLock /\ [][NextRunLock]_vars

\* no other invocation is inside __enter__ or __exit__
Quiet(p) == \A q \in Procs \ {p} : ~InLockCode(q)

\* invocations whose __enter__ and __exit__ do not overlap another's
NextRunLockSerial ==
    \/ Tick
    \/ \E p \in Procs : Quiet(p) /\ Enter_exists(p)
    \/ \E p \in Procs : Quiet(p) /\ Enter_stat(p)
    \/ \E p \in Procs : Quiet(p) /\ Enter_unlink(p)
    \/ \E p \in Procs : Quiet(p) /\ Enter_write(p)
    \/ \E p \in Procs : Quiet(p) /\ RunBody(p)
    \/ \E p \in Procs : Quiet(p) /\ Crash(p)
    \/ \E p \in Procs : Quiet(p) /\ Exit_exists(p)
    \/ \E p \in Procs : Quiet(p) /\ Exit_unlink(p)

SpecRunLockSerial == InitRunLock /\ [][NextRunLockSerial]_vars

\* C5: of overlapping invocations at most one executes the cycle body, unless
\* one of them took the lock over from a record it read as stale.
C5_AtMostOneHolder ==
    \A p \in Procs : \A q \in Procs \ {p} :
        (pc[p] = "body" /\ pc[q] = "body") =>
            \/ (seen_age[p] # NoAge /\ ~IsFresh(seen_age[p]))
            \/ (seen_age[q] # NoAge /\ ~IsFresh(seen_age[q]))

IntervalReturns == {-150, -10, 0, 50}

\* stop_loss_daily over a one-day interval, in percent (the default -0.10)
StopLossPct == -10

\* StrategyConfig.reinvest_ratio, in percent (the default 0.5)
ReinvestPct == 50

\* the [autopause] settings that are tried
AutopauseStreaks == {0, 1, AutopauseStreak}
ResumeWaits == {0, 2}
ResumeCooldowns == {0, 3}
FastSignalMins == {0, 50}

\* TREASURY_MIN_EUR as a cycle reads it: no threshold, or one no share reaches
TreasuryMins == {0, 1000000}

\* capital.txt before the first cycle, in millionths
InitialCapitals == {0, 1, 8}

\* an Optional timestamp: << >> is None
NoStamp == << >>

\* the crisis fields of StrategyState(): the dataclass defaults
CrisisState ==
    [paused |-> FALSE, crisis_streak |-> 0, last_crisis_at |-> NoStamp,
     last_resume_attempt |-> NoStamp]

\* no cycle of SpecCrisis has run
NoCrisisCycle ==
    [ran |-> FALSE, at |-> 0, r_net_interval |-> 0, streak_before |-> 0,
     paused_before |-> FALSE, autopause |-> FALSE, attempted |-> FALSE,
     resumed |-> FALSE, prev_attempt |-> NoStamp,
     capital_before |-> 0, settled |-> FALSE,
     treasury_before |-> 0, dispatched |-> FALSE]

\* crisis_flag = r_net_interval < stop_loss_interval
crisis_flag(r_net_interval, stop_loss_interval) ==
    r_net_interval < stop_loss_interval

\* the streak after the crisis test: one more, or zero
crisis_streak_after(crisis, streak) == IF crisis THEN streak + 1 ELSE 0

\* mutant of autopause_triggered: the pause comes one crisis cycle early
autopause_triggered_Early(autopause_streak, crisis, streak, is_paused) ==
    /\ autopause_streak > 0
    /\ crisis
    /\ streak + 1 >= autopause_streak
    /\ ~is_paused

\* the condition of the automatic pause
autopause_triggered(autopause_streak, crisis, streak, is_paused) ==
    /\ autopause_streak > 0
    /\ crisis
    /\ streak >= autopause_streak
    /\ ~is_paused

\* cooldown_ok of the resume branch
cooldown_ok(last_resume_attempt, cooldown_resume, t) ==
    \/ last_resume_attempt = NoStamp
    \/ cooldown_resume = 0
    \/ t - last_resume_attempt[1] >= cooldown_resume

\* fast_signal of the resume branch
fast_signal(r_net_interval, fast_signal_min) == r_net_interval >= fast_signal_min

\* ready_by_time of the resume branch
ready_by_time(last_crisis_at, resume_threshold, t) ==
    \/ resume_threshold = 0
    \/ (last_crisis_at # NoStamp /\ t - last_crisis_at[1] >= resume_threshold)

\* mutant of settlement_branch: the stop-loss branch is missing
settlement_branch_NoStopLoss(crisis, is_paused) ==
    IF is_paused THEN "paused-eval" ELSE "executed"

\* which of the three settlement branches runs (its status_head)
settlement_branch(crisis, is_paused) ==
    IF crisis THEN "stopped"
    ELSE IF is_paused THEN "paused-eval"
    ELSE "executed"

\* mutant of dispatch_due: the payout is dispatched from every branch
dispatch_due_AnyBranch(branch, treasury_delta_planned) ==
    treasury_delta_planned > 0

\* dispatch_treasury_payout is called: in the executed branch, for a
\* planned share above zero
dispatch_due(branch, treasury_delta_planned) ==
    branch = "executed" /\ treasury_delta_planned > 0

\* capital_after of the branches, in 1/10000 millionths
capital_after(capital_before, r_net_interval, branch, ratio) ==
    IF branch = "executed"
    THEN settle_day(capital_before, r_net_interval, ratio).capital_new
    ELSE capital_before * 10000

\* one cycle from the return of the working pool to the saved state
crisis_cycle ==
    \E d \in 1..2, r \in IntervalReturns, resume_tx \in BOOLEAN,
       treasury_min \in TreasuryMins, paid \in BOOLEAN :
        LET t == now + d
            crisis == crisis_flag(r, cfg.stop_loss)
            streak1 == crisis_streak_after(crisis, state.crisis_streak)
            last_crisis1 == IF crisis THEN <<t>> ELSE state.last_crisis_at
            autopause == autopause_triggered(cfg.autopause_streak, crisis,
                                             streak1, state.paused)
            paused1 == state.paused \/ autopause
            last_resume1 == IF autopause THEN NoStamp
                            ELSE state.last_resume_attempt
            attempt == /\ paused1 /\ ~crisis /\ ~autopause
                       /\ cooldown_ok(last_resume1, cfg.resume_cooldown, t)
                       /\ \/ fast_signal(r, cfg.fast_signal_min)
                          \/ ready_by_time(last_crisis1, cfg.resume_wait, t)
            resumed == attempt /\ resume_tx
            paused2 == paused1 /\ ~resumed
            branch == settlement_branch(crisis, paused2)
            settles == branch = "executed"
            ratio == effective_reinvest_ratio(ledger.capital * r, cfg.reinvest_ratio,
                                              1, treasury_min)
            settled == settle_day(ledger.capital, r, ratio)
            capital1 == FormatMicro(capital_after(ledger.capital, r, branch,
                                                  ratio), 10000)
            treasury1 == FormatMicro(ledger.treasury * 10000
                                     + (IF paid THEN settled.treasury_delta ELSE 0),
                                     10000)
        IN /\ t <= MaxCycleTime
           /\ crisis => state.crisis_streak < MaxStreak
           /\ settles => (capital1 <= MaxCapital /\ treasury1 <= MaxCapital)
           /\ now' = t
           /\ state' = [paused |-> paused2,
                        crisis_streak |-> IF resumed THEN 0 ELSE streak1,
                        last_crisis_at |-> last_crisis1,
                        last_resume_attempt |-> IF attempt THEN <<t>> ELSE last_resume1]
           /\ ledger' = IF settles
                          THEN [capital |-> capital1, treasury |-> treasury1]
                          ELSE ledger
           /\ cyc' = [ran |-> TRUE, at |-> t, r_net_interval |-> r,
                      streak_before |-> state.crisis_streak,
                      paused_before |-> state.paused,
                      autopause |-> autopause, attempted |-> attempt,
                      resumed |-> resumed,
                      prev_attempt |-> IF cyc.attempted THEN <<cyc.at>>
                                       ELSE cyc.prev_attempt,
                      capital_before |-> ledger.capital, settled |-> settles,
                      treasury_before |-> ledger.treasury,
                      dispatched |-> dispatch_due(branch, settled.treasury_delta)]
           /\ UNCHANGED <<ksVars, lockVars, fnVars, cfg, cpc, outcome, notified,
                          disk, rpc>>

InitCrisis ==
    /\ now = 0
    /\ KillSwitchInit(3, 2)
    /\ ks_op = "init" /\ check_raised = FALSE /\ run_errors = 0 /\ run_clean = TRUE
    /\ ks_before = KillSwitchState
    /\ LockIdle
    /\ FnIdle
    /\ cfg \in [stop_loss : {StopLossPct}, reinvest_ratio : {ReinvestPct},
               autopause_streak : AutopauseStreaks, resume_wait : ResumeWaits,
               resume_cooldown : ResumeCooldowns, fast_signal_min : FastSignalMins]
    /\ state = CrisisState
    /\ cpc = "idle"
    /\ cyc = NoCrisisCycle
    /\ outcome = "none"
    /\ notified = FALSE
    /\ ledger \in [capital : InitialCapitals, treasury : {0}]
    /\ disk = << >>
    /\ rpc = << >>

NextCrisis == crisis_cycle

SpecCrisis == InitCrisis /\ [][NextCrisis]_vars

BelowStopLoss == cyc.r_net_interval < cfg.stop_loss

\* C22: the crisis streak counts consecutive cycles whose interval return is
\* below the stop-loss threshold: one more on each such cycle, back to 0 on
\* any other completed cycle (a resume leaves it at 0); paused becomes true
\* in the crisis cycle at which the streak reaches the configured autopause
\* streak (when that is > 0), and never at a smaller streak.
C22_StreakAndAutopause ==
    cyc.ran =>
        /\ BelowStopLoss => state.crisis_streak = cyc.streak_before + 1
        /\ ~BelowStopLoss => state.crisis_streak = 0
        /\ (/\ BelowStopLoss
            /\ cfg.autopause_streak > 0
            /\ state.crisis_streak >= cfg.autopause_streak) => state.paused
        /\ (~cyc.paused_before /\ state.paused) =>
             /\ BelowStopLoss
             /\ cfg.autopause_streak > 0
             /\ state.crisis_streak = cfg.autopause_streak

\* the third crisis cycle in a row pauses a vault configured with a streak of 3
C22_Witness ==
    /\ cyc.ran
    /\ cfg.autopause_streak = AutopauseStreak
    /\ BelowStopLoss
    /\ cyc.streak_before = AutopauseStreak - 1
    /\ ~cyc.paused_before
    /\ state.paused
    /\ state.crisis_streak = AutopauseStreak

\* the resume cooldown has elapsed since the attempt stamped at a
CooldownElapsedSince(a) ==
    a = NoStamp \/ cyc.at - a[1] >= cfg.resume_cooldown

\* the dwell time since the last crisis has elapsed
DwellElapsed ==
    /\ state.last_crisis_at # NoStamp
    /\ cyc.at - state.last_crisis_at[1] >= cfg.resume_wait

\* C23: a resume attempt, and so any clearing of paused, happens only in a
\* non-crisis cycle in which the resume cooldown since the previous
\* resume attempt has elapsed and the dwell time since the last crisis has
\* elapsed or the return meets the fast-signal threshold; two resume attempts
\* are never less than the cooldown apart.
C23_ResumeOnlyWhenDue ==
    cyc.ran =>
        /\ (cyc.paused_before /\ ~state.paused) => cyc.attempted
        /\ cyc.attempted =>
             /\ ~BelowStopLoss
             /\ CooldownElapsedSince(cyc.prev_attempt)
             /\ DwellElapsed \/ cyc.r_net_interval >= cfg.fast_signal_min

\* ------------------------------------------- onchain.py: multi-RPC failover
\* SpecRpc follows the module globals of onchain.py through calls of
\* _ensure_connected and _rpc_try; cfg holds REQUIRE_BASE.  SpecRpcLive adds
\* that a call in progress keeps running.

\* len(RPCS) is NumEndpoints; the endpoints are the indexes 0..NumEndpoints-1
Endpoints == 0..(NumEndpoints - 1)

\* _w3 is None, _current_rpc_url is None
NoEndpoint == -1

ALLOWED_CHAIN_IDS == {8453, 84532}
BASE_CHAIN_ID == 8453
MAX_BLOCK_STALENESS_S == 90
RPC_MAX_RETRIES == 2

\* what an endpoint answers to one probe: is_connected(), eth.chain_id, and the
\* age in seconds of its latest block
ChainIds == {BASE_CHAIN_ID, 84532, 1}
BlockAges == {0, MAX_BLOCK_STALENESS_S, MAX_BLOCK_STALENESS_S + 1}
Healths == [connected : BOOLEAN, chain_id : ChainIds, block_age : BlockAges]
NoHealth == [connected |-> FALSE, chain_id |-> 1, block_age |-> 0]

AllChecks == <<"is_connected", "chain_id", "latest_block">>

\* the module globals at import, no call in progress
RpcGlobals ==
    [w3 |-> NoEndpoint, current_index |-> 0, current_url |-> NoEndpoint,
     last_switch_reason |-> "-", switched_from |-> NoEndpoint,
     pc |-> "idle", caller |-> "none",
     start_index |-> 0, step |-> 0, probed |-> << >>, outcomes |-> << >>,
     checks |-> << >>, health |-> NoHealth, connect_result |-> "none",
     in_try |-> FALSE, attempt |-> 0, attempts |-> 0, last_exc |-> "none",
     try_result |-> "none", fn_w3 |-> NoEndpoint, called_on |-> NoEndpoint,
     active_at_call |-> NoEndpoint]

\* mutant of probe_index: every selection starts from the head of the list
probe_index_FromHead(start_index, step, total) == step % total

\* idx = (start_index + step) % total
probe_index(start_index, step, total) == (start_index + step) % total

\* mutant of probe_checks: the staleness of the latest block is not looked at
probe_checks_NoStaleness(h, require_base) ==
    IF ~h.connected THEN << >>
    ELSE IF h.chain_id \notin ALLOWED_CHAIN_IDS THEN <<"is_connected">>
    ELSE IF require_base /\ h.chain_id # BASE_CHAIN_ID THEN <<"is_connected">>
    ELSE AllChecks

\* the checks of the try block that the candidate passed, in the order made
probe_checks(h, require_base) ==
    IF ~h.connected THEN << >>
    ELSE IF h.chain_id \notin ALLOWED_CHAIN_IDS THEN <<"is_connected">>
    ELSE IF require_base /\ h.chain_id # BASE_CHAIN_ID THEN <<"is_connected">>
    ELSE IF h.block_age > MAX_BLOCK_STALENESS_S THEN <<"is_connected", "chain_id">>
    ELSE AllChecks

\* _connect(start) begins: the locals of the loop
ConnectFrom(r, start, who) ==
    [r EXCEPT !.pc = "connect", !.caller = who, !.start_index = start,
              !.step = 0, !.probed = << >>, !.outcomes = << >>,
              !.checks = << >>, !.connect_result = "none"]

\* _ensure_connected() with no connection yet: _connect(0)
ensure_connected ==
    /\ rpc.pc = "idle"
    /\ rpc.w3 = NoEndpoint
    /\ rpc' = ConnectFrom(rpc, 0, "_ensure_connected")
    /\ UNCHANGED <<now, ksVars, lockVars, cycVars, fnVars, ledger, disk>>

\* one iteration of the loop of _connect
connect_probe ==
    /\ rpc.pc = "connect"
    /\ \E h \in Healths :
        LET idx == probe_index(rpc.start_index, rpc.step, NumEndpoints)
            passed == probe_checks(h, cfg.require_base)
            ok == passed = AllChecks
            seen == [rpc EXCEPT !.probed = Append(@, idx),
                                !.outcomes = Append(@, ok),
                                !.checks = passed, !.health = h]
        IN IF ok
           THEN rpc' = [seen EXCEPT !.w3 = idx, !.current_index = idx,
                                    !.current_url = idx,
                                    !.connect_result = "connected",
                                    !.pc = IF rpc.in_try THEN "call" ELSE "idle",
                                    !.attempt = IF rpc.in_try THEN @ + 1 ELSE @]
           ELSE IF rpc.step + 1 < NumEndpoints
           THEN rpc' = [seen EXCEPT !.step = @ + 1]
           ELSE rpc' = [seen EXCEPT !.step = @ + 1,
                                    !.connect_result = "RPC_FAILOVER_EXHAUSTED",
                                    !.pc = "idle",
                                    !.in_try = FALSE,
                                    !.try_result = IF rpc.in_try
                                                   THEN "RPC_FAILOVER_EXHAUSTED"
                                                   ELSE @]
    /\ UNCHANGED <<now, ksVars, lockVars, cycVars, fnVars, ledger, disk>>

\* mutant of retry_due: one retry more than RPC_MAX_RETRIES
retry_due_OneMore(attempt) == attempt <= RPC_MAX_RETRIES

\* attempt < RPC_MAX_RETRIES
retry_due(attempt) == attempt < RPC_MAX_RETRIES

\* _rpc_try(fn) is called on an established connection; the callers pass a
\* lambda over the Web3 object they were handed (w3.eth..., w.eth..., tx_fn
\* built on it), so fn is bound to the endpoint that is active now
rpc_try_start ==
    /\ rpc.pc = "idle"
    /\ rpc.w3 # NoEndpoint
    /\ rpc' = [rpc EXCEPT !.pc = "call", !.in_try = TRUE, !.attempt = 0,
                          !.attempts = 0, !.last_exc = "none",
                          !.try_result = "none",
                          !.fn_w3 = rpc.w3,
                          !.called_on = NoEndpoint,
                          !.active_at_call = NoEndpoint]
    /\ UNCHANGED <<now, ksVars, lockVars, cycVars, fnVars, ledger, disk>>

\* one iteration of the loop of _rpc_try: fn() returns or raises
rpc_try_attempt ==
    /\ rpc.pc = "call"
    /\ \E raises \in BOOLEAN :
        LET called == [rpc EXCEPT !.attempts = @ + 1,
                                  !.called_on = rpc.fn_w3,
                                  !.active_at_call = rpc.w3]
        IN IF ~raises
           THEN rpc' = [called EXCEPT !.pc = "idle", !.in_try = FALSE,
                                      !.try_result = "returned"]
           ELSE IF retry_due(rpc.attempt)
           THEN rpc' = ConnectFrom([called EXCEPT !.last_exc = "exc",
                                                  !.last_switch_reason = "exc:Exception",
                                                  !.switched_from = rpc.current_index],
                                   rpc.current_index + 1, "switch_rpc")
           ELSE rpc' = [called EXCEPT !.last_exc = "exc", !.pc = "idle",
                                      !.in_try = FALSE, !.try_result = "last_exc"]
    /\ UNCHANGED <<now, ksVars, lockVars, cycVars, fnVars, ledger, disk>>

InitRpc ==
    /\ now = 0
    /\ KillSwitchInit(3, 2)
    /\ ks_op = "init" /\ check_raised = FALSE /\ run_errors = 0 /\ run_clean = TRUE
    /\ ks_before = KillSwitchState
    /\ LockIdle
    /\ FnIdle
    /\ cfg \in [require_base : BOOLEAN]
    /\ state = StrategyState
    /\ cpc = "idle"
    /\ cyc = FreshCycle
    /\ outcome = "none"
    /\ notified = FALSE
    /\ ledger = [capital |-> 0, treasury |-> 0]
    /\ disk = << >>
    /\ rpc = RpcGlobals

NextRpc ==
    \/ ensure_connected
    \/ connect_probe
    \/ rpc_try_start
    \/ rpc_try_attempt

SpecRpc == InitRpc /\ [][NextRpc]_vars

\* a selection or a call in progress takes its next step
SpecRpcLive == SpecRpc /\ WF_vars(connect_probe) /\ WF_vars(rpc_try_attempt)

\* the probes of the current (or last) selection, as the claim has them
ProbesInRingOrder ==
    /\ Len(rpc.probed) <= NumEndpoints
    /\ \A i \in 1..Len(rpc.probed) :
         rpc.probed[i] = (rpc.start_index + (i - 1)) % NumEndpoints
    /\ \A i \in 1..Len(rpc.probed) : \A j \in 1..Len(rpc.probed) :
         i # j => rpc.probed[i] # rpc.probed[j]
    /\ \A i \in 1..(Len(rpc.outcomes) - 1) : ~rpc.outcomes[i]
    /\ rpc.caller = "_ensure_connected" => rpc.start_index = 0
    /\ (rpc.pc = "connect") = (/\ rpc.caller # "none"
                               /\ Len(rpc.probed) < NumEndpoints
                               /\ \A i \in 1..Len(rpc.outcomes) : ~rpc.outcomes[i])
    /\ (rpc.connect_result = "connected") =
         (Len(rpc.outcomes) > 0 /\ rpc.outcomes[Len(rpc.outcomes)])
    /\ (rpc.connect_result = "RPC_FAILOVER_EXHAUSTED") =
         (/\ Len(rpc.outcomes) = NumEndpoints
          /\ \A i \in 1..NumEndpoints : ~rpc.outcomes[i])

\* C24: _connect probes each configured endpoint at most once per invocation,
\* in ring order from the start index (0 at process start), stops at the
\* first endpoint that passes, raises RPC_FAILOVER_EXHAUSTED if and only if
\* every endpoint fails, and always terminates after at most one pass.
C24_ConnectOnePass ==
    /\ []ProbesInRingOrder
    /\ (rpc.pc = "connect") ~> (rpc.pc # "connect")

\* a selection that began at index 1 failed there and at 2, wrapped round and
\* stopped at endpoint 0
C24_Witness ==
    /\ rpc.connect_result = "connected"
    /\ rpc.start_index = 1
    /\ Len(rpc.probed) = NumEndpoints
    /\ rpc.probed[1] = 1
    /\ rpc.probed[NumEndpoints] = 0
    /\ rpc.w3 = 0

\* the answers of an endpoint that pass the three checks
Healthy(h) ==
    /\ h.connected
    /\ h.chain_id \in ALLOWED_CHAIN_IDS
    /\ h.block_age <= MAX_BLOCK_STALENESS_S

\* the active endpoint and index
ActiveEndpoint(r) == <<r.w3, r.current_index, r.current_url>>

\* C25: whenever an endpoint becomes the active endpoint it has passed during
\* that selection, in this order, the reachability check, the chain-id
\* allow-list check and the latest-block staleness check; an endpoint that
\* fails any of the three is never made active, and a failed probe leaves the
\* previously active endpoint and index unchanged.
C25_ActiveOnlyAfterChecks ==
    [][/\ ActiveEndpoint(rpc') # ActiveEndpoint(rpc) =>
            (rpc.pc = "connect" /\ rpc'.connect_result = "connected")
       /\ (rpc.pc = "connect" /\ rpc'.connect_result = "connected") =>
            /\ Healthy(rpc'.health)
            /\ rpc'.checks = <<"is_connected", "chain_id", "latest_block">>
            /\ rpc'.w3 = rpc'.probed[Len(rpc'.probed)]
            /\ rpc'.current_index = rpc'.w3
       /\ (rpc.pc = "connect" /\ ~Healthy(rpc'.health)) =>
            ActiveEndpoint(rpc') = ActiveEndpoint(rpc)]_vars

\* a failover left endpoint 0, found endpoint 1 failing and made endpoint 2
\* active after it passed the three checks
C25_Witness ==
    /\ rpc.caller = "switch_rpc"
    /\ rpc.connect_result = "connected"
    /\ rpc.switched_from = 0
    /\ rpc.probed = <<1, 2>>
    /\ rpc.outcomes = <<FALSE, TRUE>>
    /\ rpc.checks = AllChecks
    /\ Healthy(rpc.health)
    /\ rpc.w3 = 2

\* what C26 says of every failed call that is not the last one allowed
FailoverOnFailure ==
    /\ rpc.attempts <= RPC_MAX_RETRIES + 1
    /\ (rpc.pc = "connect" /\ rpc.in_try) =>
         /\ rpc.caller = "switch_rpc"
         /\ rpc.last_switch_reason # "-"
         /\ rpc.last_exc # "none"
         /\ rpc.start_index = rpc.switched_from + 1
         /\ rpc.probed # << >> =>
              rpc.probed[1] = (rpc.switched_from + 1) % NumEndpoints
    /\ (rpc.pc = "call" /\ rpc.attempts > 0) =>
         /\ rpc.connect_result = "connected"
         /\ rpc.w3 = rpc.probed[Len(rpc.probed)]
         /\ rpc.attempts = rpc.attempt

\* C26 as stated: when a call made through _rpc_try fails, the layer moves to
\* the next endpoint in ring order, records a reason string and retries the
\* call; the call is attempted at most RPC_MAX_RETRIES + 1 times in total,
\* after which the last error is raised to the caller.
C26_Original ==
    /\ FailoverOnFailure
    /\ rpc.try_result \notin {"none", "returned"} =>
         /\ rpc.try_result = "last_exc"
         /\ rpc.attempts = RPC_MAX_RETRIES + 1

\* C26, amended: when a call made through _rpc_try fails, the layer selects
\* the next endpoint in ring order that passes the probes, records a reason
\* string and retries the call, or raises RPC_FAILOVER_EXHAUSTED in place of
\* the retry when no endpoint passes; the call is attempted at most
\* RPC_MAX_RETRIES + 1 times in total, after which the last error is raised
\* to the caller.
C26_RetryOrExhausted ==
    /\ FailoverOnFailure
    /\ rpc.try_result = "last_exc" => rpc.attempts = RPC_MAX_RETRIES + 1
    /\ rpc.try_result = "RPC_FAILOVER_EXHAUSTED" =>
         /\ rpc.attempts <= RPC_MAX_RETRIES
         /\ rpc.connect_result = "RPC_FAILOVER_EXHAUSTED"
         /\ Len(rpc.outcomes) = NumEndpoints
         /\ \A i \in 1..NumEndpoints : ~rpc.outcomes[i]
    /\ rpc.try_result \in {"none", "returned", "last_exc", "RPC_FAILOVER_EXHAUSTED"}

\* the call failed RPC_MAX_RETRIES + 1 times, each retry on a newly selected
\* endpoint, and the last error went to the caller
C26_Witness ==
    /\ rpc.try_result = "last_exc"
    /\ rpc.attempts = RPC_MAX_RETRIES + 1
    /\ rpc.caller = "switch_rpc"
    /\ rpc.connect_result = "connected"
    /\ rpc.last_switch_reason = "exc:Exception"

\* --------------------------------------- the persisted records under crashes
\* SpecPersist follows the files of the deployment through process starts,
\* saves and crashes.  Every save in the code is write_text or open("w") on
\* the file itself: the file is cut to length zero when it is opened and holds
\* the new text only once the write has gone through.  Here cpc says whether
\* the process is down, running or inside a write, and cyc holds the write in
\* progress.

Files == {"kill_switch", "state", "capital", "treasury", "lock"}

\* no write has begun
NoWrite ==
    [file |-> "none", pending |-> Missing, prev |-> Missing,
     tripped |-> FALSE, crashed_in |-> "none"]

\* path.write_text(text) and path.open("w") begin: the file is truncated
BeginWrite(f, content) ==
    /\ disk' = [disk EXCEPT ![f] = Torn]
    /\ cyc' = [cyc EXCEPT !.file = f, !.pending = content, !.prev = disk[f],
                          !.crashed_in = "none"]
    /\ cpc' = "writing"

\* main(): get_kill_switch() builds the KillSwitch from its file, check() runs
process_start ==
    /\ cpc = "down"
    /\ ks' = KillSwitchState_load(disk["kill_switch"])
    /\ ks_before' = ks
    /\ ks_op' = "init"
    /\ check_raised' = CheckRaises(ks')
    /\ cpc' = IF CheckRaises(ks') THEN "down" ELSE "running"
    /\ cyc' = [cyc EXCEPT !.crashed_in = "none"]
    /\ UNCHANGED <<now, threshold, reset_timeout, run_errors, run_clean, lockVars,
                   fnVars, cfg, state, outcome, notified, ledger, disk, rpc>>

\* KillSwitch.record_error up to the opening of the state file
persist_record_error ==
    /\ cpc = "running"
    /\ ks.consecutive_errors < MaxErrors
    /\ ks' = AfterRecordError(ks, now)
    /\ ks_before' = ks
    /\ ks_op' = "record_error"
    /\ BeginWrite("kill_switch", KillSwitchState_save(ks'))
    /\ UNCHANGED <<now, threshold, reset_timeout, check_raised, run_errors, run_clean,
                   lockVars, fnVars, cfg, state, outcome, notified, ledger, rpc>>

\* KillSwitch.record_success up to the opening of the state file
persist_record_success ==
    /\ cpc = "running"
    /\ ks' = AfterRecordSuccess(ks)
    /\ ks_before' = ks
    /\ ks_op' = "record_success"
    /\ BeginWrite("kill_switch", KillSwitchState_save(ks'))
    /\ UNCHANGED <<now, threshold, reset_timeout, check_raised, run_errors, run_clean,
                   lockVars, fnVars, cfg, state, outcome, notified, ledger, rpc>>

\* an operator's KillSwitch().reset() up to the opening of the state file
persist_reset ==
    /\ cpc = "down"
    /\ ks' = KillSwitchState
    /\ ks_before' = KillSwitchState_load(disk["kill_switch"])
    /\ ks_op' = "reset"
    /\ disk' = [disk EXCEPT !["kill_switch"] = Torn]
    /\ cyc' = [file |-> "kill_switch", pending |-> KillSwitchState_save(ks'),
               prev |-> disk["kill_switch"], tripped |-> FALSE,
               crashed_in |-> "none"]
    /\ cpc' = "writing"
    /\ UNCHANGED <<now, threshold, reset_timeout, check_raised, run_errors, run_clean,
                   lockVars, fnVars, cfg, state, outcome, notified, ledger, rpc>>

\* StrategyState.save, store_decimal_file and RunLock.__enter__ up to the
\* opening of their file
persist_other ==
    /\ cpc = "running"
    /\ \/ BeginWrite("state", StrategyState_save([PersistedState EXCEPT !.paused = TRUE]))
       \/ \E f \in {"capital", "treasury"} : BeginWrite(f, store_decimal_file(19))
       \/ BeginWrite("lock", Document(<<1, now>>))
    /\ UNCHANGED <<now, ksVars, lockVars, fnVars, cfg, state, outcome, notified,
                   ledger, rpc>>

\* the text is written and the file closed
write_done ==
    /\ cpc = "writing"
    /\ disk' = [disk EXCEPT ![cyc.file] = cyc.pending]
    /\ cyc' = [cyc EXCEPT !.tripped =
                   IF cyc.file = "kill_switch" THEN ks.triggered ELSE @]
    /\ cpc' = "running"
    /\ UNCHANGED <<now, ksVars, lockVars, fnVars, cfg, state, outcome, notified,
                   ledger, rpc>>

\* the process ends or is killed, possibly inside a write
process_stop ==
    /\ cpc \in {"running", "writing"}
    /\ cpc' = "down"
    /\ cyc' = [cyc EXCEPT !.crashed_in = IF cpc = "writing" THEN cyc.file ELSE "none"]
    /\ UNCHANGED <<now, ksVars, lockVars, fnVars, cfg, state, outcome, notified,
                   ledger, disk, rpc>>

InitPersist ==
    /\ now = 0
    /\ \E th \in 1..MaxThreshold : KillSwitchInit(th, 2)
    /\ ks_op = "init" /\ check_raised = FALSE /\ run_errors = 0 /\ run_clean = TRUE
    /\ ks_before = KillSwitchState
    /\ LockIdle
    /\ FnIdle
    /\ cfg = [dry_run |-> FALSE, onchain |-> TRUE, capital |-> 2,
              delta_switch |-> DeltaSwitchPct]
    /\ state = StrategyState
    /\ cpc = "down"
    /\ cyc = NoWrite
    /\ outcome = "none"
    /\ notified = FALSE
    /\ ledger = [capital |-> 0, treasury |-> 0]
    /\ disk = [f \in Files |-> Missing]
    /\ rpc = << >>

NextPersist ==
    \/ process_start
    \/ persist_record_error
    \/ persist_record_success
    \/ persist_reset
    \/ persist_other
    \/ write_done
    \/ process_stop

SpecPersist == InitPersist /\ [][NextPersist]_vars

\* C28: a tripped kill switch survives restarts: once a triggered state has
\* been saved, every KillSwitch constructed later from the same state file is
\* triggered and its check() raises, until reset() is called; no restart and
\* no failed or interrupted write of the file returns it to the healthy state.
C28_TrippedSurvivesRestart ==
    (cyc.tripped /\ ks_op = "init") => (ks.triggered /\ check_raised)

\* C29: each persisted record is written atomically: if the process crashes at
\* any point during a write of a record, the file on storage still holds the
\* previous valid record, never a partial or empty one.
C29_AtomicWrites ==
    (cpc = "down" /\ cyc.crashed_in # "none") =>
        /\ disk[cyc.crashed_in] = cyc.prev
        /\ disk[cyc.crashed_in].kind # "torn"

\* ------------------- strategy.py and treasury.py: settlement and the payout
\* SpecTreasury runs the settled branch of _run_strategy step by step, with
\* dispatch_treasury_payout inlined.  Here cfg holds the reinvest ratio and
\* TREASURY_AUTOMATION_ENABLED, cyc the local variables of the cycle, ledger
\* the two files; the in-memory amounts of cyc are in ten-thousandths of a
\* millionth, as settle_day returns them.

\* r_net_interval of a settled cycle, in percent
SettledReturns == {-10, 0, 50}

\* what dispatch_treasury_payout returned: nothing yet, None, {}, a swap
\* without eurc_amount, or the full result
DispatchResults == {"not_called", "None", "empty", "swap_only", "sent"}

\* the local variables of a settlement that has not started
NoSettlement ==
    [capital_before |-> 0, treasury_before |-> 0, r_net_interval |-> 0,
     profit |-> 0, capital_after |-> 0, treasury_delta_planned |-> 0,
     treasury_total |-> 0, dispatch |-> "not_called", failed |-> "none"]

\* treasury_delta_effective after the dispatch: the planned share when the
\* automation is disabled or eurc_amount came back, otherwise 0
treasury_delta_effective(dispatch, treasury_delta_planned) ==
    IF dispatch \in {"None", "sent"} THEN treasury_delta_planned ELSE 0

\* dispatch_treasury_payout returns result; failed names the step that failed
DispatchReturns(result, step) ==
    /\ cyc' = [cyc EXCEPT !.dispatch = result, !.failed = step]
    /\ cpc' = "treasury"
    /\ UNCHANGED outcome

\* an exception leaves dispatch_treasury_payout, _run_strategy and main
DispatchRaises(step) ==
    /\ cyc' = [cyc EXCEPT !.failed = step]
    /\ cpc' = "raised"
    /\ outcome' = "exception"

\* dispatch_treasury_payout goes on to its next step
DispatchGoes(next) ==
    /\ cpc' = next
    /\ UNCHANGED <<cyc, outcome>>

\* the settled branch up to the dispatch: effective_reinvest_ratio,
\* settle_day, capital.txt
settle_start ==
    \E r \in SettledReturns, treasury_min \in TreasuryMins :
        LET ratio == effective_reinvest_ratio(ledger.capital * r, cfg.reinvest_ratio,
                                              1, treasury_min)
            settled == settle_day(ledger.capital, r, ratio)
            capital1 == FormatMicro(settled.capital_new, 10000)
        IN /\ cpc \in {"idle", "done", "raised"}
           /\ capital1 <= MaxCapital
           /\ cyc' = [capital_before |-> ledger.capital * 10000,
                      treasury_before |-> ledger.treasury * 10000,
                      r_net_interval |-> r,
                      profit |-> settled.profit * 100,
                      capital_after |-> settled.capital_new,
                      treasury_delta_planned |-> settled.treasury_delta,
                      treasury_total |-> ledger.treasury * 10000,
                      dispatch |-> "not_called", failed |-> "none"]
           /\ ledger' = [ledger EXCEPT !.capital = capital1]
           /\ cpc' = IF settled.treasury_delta > 0 THEN "dispatch" ELSE "treasury"
           /\ outcome' = "none"
           /\ notified' = FALSE
           /\ UNCHANGED <<now, ksVars, lockVars, fnVars, cfg, state, disk, rpc>>

\* dispatch_treasury_payout up to the quote: settings, thresholds, signer
\* context, available balance, amount in wei
dispatch_guards ==
    \E below_min \in BOOLEAN, signer \in {"ok", "None", "raise"},
       enough \in BOOLEAN, wei_zero \in BOOLEAN :
        /\ cpc = "dispatch"
        /\ IF ~cfg.enabled THEN DispatchReturns("None", "none")
           ELSE IF below_min THEN DispatchReturns("empty", "none")
           ELSE IF signer = "raise" THEN DispatchRaises("signer_context")
           ELSE IF signer = "None" THEN DispatchReturns("empty", "signer_context")
           ELSE IF ~enough THEN DispatchReturns("empty", "none")
           ELSE IF wei_zero THEN DispatchReturns("empty", "none")
           ELSE DispatchGoes("quote")
        /\ UNCHANGED <<now, ksVars, lockVars, fnVars, cfg, state, notified, ioVars>>

\* _fetch_quote
dispatch_quote ==
    \E quote_ok \in BOOLEAN :
        /\ cpc = "quote"
        /\ IF quote_ok THEN DispatchGoes("reads")
           ELSE DispatchReturns("empty", "quote")
        /\ UNCHANGED <<now, ksVars, lockVars, fnVars, cfg, state, notified, ioVars>>

\* the EURC balance before the swap and the nonce, read outside any try
dispatch_reads ==
    \E read \in {"ok", "balance_fails", "nonce_fails"} :
        /\ cpc = "reads"
        /\ IF read = "balance_fails" THEN DispatchRaises("balance_read")
           ELSE IF read = "nonce_fails" THEN DispatchRaises("nonce_read")
           ELSE DispatchGoes("gas")
        /\ UNCHANGED <<now, ksVars, lockVars, fnVars, cfg, state, notified, ioVars>>

\* the gas limit (quoted or estimated), then gas price and chain id
dispatch_gas ==
    \E quoted \in BOOLEAN, estimate_ok \in BOOLEAN, price_ok \in BOOLEAN :
        /\ cpc = "gas"
        /\ IF ~quoted /\ ~estimate_ok THEN DispatchReturns("empty", "gas_estimation")
           ELSE IF ~quoted /\ ~price_ok THEN DispatchRaises("gas_price_read")
           ELSE DispatchGoes("swap")
        /\ UNCHANGED <<now, ksVars, lockVars, fnVars, cfg, state, notified, ioVars>>

\* the swap: sign, send, wait for the receipt, read the EURC acquired
dispatch_swap ==
    \E swap \in {"ok", "send_fails", "reverted"}, balance_ok \in BOOLEAN,
       acquired_eurc \in 0..1 :
        /\ cpc = "swap"
        /\ IF swap = "send_fails" THEN DispatchReturns("empty", "swap_send")
           ELSE IF swap = "reverted" THEN DispatchReturns("empty", "swap_revert")
           ELSE IF ~balance_ok THEN DispatchRaises("balance_read")
           ELSE IF acquired_eurc = 0 THEN DispatchReturns("empty", "none")
           ELSE DispatchGoes("transfer")
        /\ UNCHANGED <<now, ksVars, lockVars, fnVars, cfg, state, notified, ioVars>>

\* the transfer of the acquired EURC to the treasury address
dispatch_transfer ==
    \E transfer \in {"ok", "gas_fails", "send_fails", "reverted"} :
        /\ cpc = "transfer"
        /\ IF transfer = "gas_fails" THEN DispatchReturns("swap_only", "gas_estimation")
           ELSE IF transfer = "send_fails" THEN DispatchReturns("swap_only", "transfer_send")
           ELSE IF transfer = "reverted" THEN DispatchReturns("swap_only", "transfer_revert")
           ELSE DispatchReturns("sent", "none")
        /\ UNCHANGED <<now, ksVars, lockVars, fnVars, cfg, state, notified, ioVars>>

\* after the dispatch: treasury_total += treasury_delta_effective, treasury.txt
settle_treasury ==
    LET total == cyc.treasury_total
                 + treasury_delta_effective(cyc.dispatch, cyc.treasury_delta_planned)
    IN /\ cpc = "treasury"
       /\ FormatMicro(total, 10000) <= MaxCapital
       /\ cyc' = [cyc EXCEPT !.treasury_total = total]
       /\ ledger' = [ledger EXCEPT !.treasury = FormatMicro(total, 10000)]
       /\ cpc' = "save"
       /\ UNCHANGED <<now, ksVars, lockVars, fnVars, cfg, state, outcome, notified,
                      disk, rpc>>

\* the end of the cycle: state.save, append_log, send_telegram, record_success
settle_finish ==
    /\ cpc = "save"
    /\ cpc' = "done"
    /\ outcome' = "completed"
    /\ notified' = TRUE
    /\ UNCHANGED <<now, ksVars, lockVars, fnVars, cfg, state, cyc, ioVars>>

InitTreasury ==
    /\ now = 0
    /\ KillSwitchInit(3, 2)
    /\ ks_op = "init" /\ check_raised = FALSE /\ run_errors = 0 /\ run_clean = TRUE
    /\ ks_before = KillSwitchState
    /\ LockIdle
    /\ FnIdle
    /\ cfg \in [reinvest_ratio : {ReinvestPct}, enabled : BOOLEAN]
    /\ state = CrisisState
    /\ cpc = "idle"
    /\ cyc = NoSettlement
    /\ outcome = "none"
    /\ notified = FALSE
    /\ ledger \in [capital : InitialCapitals, treasury : {0}]
    /\ disk = << >>
    /\ rpc = << >>

NextTreasury ==
    \/ settle_start
    \/ dispatch_guards
    \/ dispatch_quote
    \/ dispatch_reads
    \/ dispatch_gas
    \/ dispatch_swap
    \/ dispatch_transfer
    \/ settle_treasury
    \/ settle_finish

SpecTreasury == InitTreasury /\ [][NextTreasury]_vars

\* the steps of the payout whose failure is to be deferred
PayoutSteps ==
    {"quote", "balance_read", "nonce_read", "gas_estimation", "swap_send",
     "swap_revert", "transfer_send", "transfer_revert"}

\* C31: a failure of the treasury payout at any step (quote request, balance
\* or nonce read, gas estimation, swap send or revert, transfer send or
\* revert) defers the payout and is never fatal: dispatch_treasury_payout
\* returns without raising and the cycle goes on to its state save, log row
\* and notification.
C31_PayoutFailureDeferred ==
    cyc.failed \in PayoutSteps => (cpc # "raised" /\ outcome # "exception")

\* the treasury total has been added up and stored
TreasuryStored == cpc \in {"save", "done"}

\* C33: in every settled cycle capital_after + treasury_total after the cycle
\* = capital_before + treasury_total before the cycle + profit, whatever the
\* treasury payout dispatch returned (sent, disabled, skipped, swap done but
\* transfer pending).
C33_LedgerConservation ==
    TreasuryStored =>
        cyc.capital_after + cyc.treasury_total
            = cyc.capital_before + cyc.treasury_before + cyc.profit

\* --------------------------- executor.py and multi_strategy.py: the dry run
\* SpecDryRun takes a cycle from the call of move_capital_smart to its end,
\* and makes one call of execute_allocations, both under PORTFOLIO_DRY_RUN as
\* cfg.dry_run holds it.

\* the pool ids of the allocation plans handed to execute_allocations
AllocationPlans ==
    {<< >>} \cup {<<p>> : p \in Pools} \cup {<<p, q>> : p, q \in Pools}

\* execute_allocations: the result string of one plan and whether
\* adapter.deposit_all() was called for it
AllocationStep(dry_run, has_adapter, res) ==
    IF dry_run THEN [result |-> "dry_run:deposit", called |-> FALSE]
    ELSE IF ~has_adapter THEN [result |-> "error:no_adapter", called |-> FALSE]
    ELSE IF res.status = "raised" THEN [result |-> "error:exception", called |-> TRUE]
    ELSE IF res.status = "ok" /\ res.tx THEN [result |-> "ok", called |-> TRUE]
    ELSE [result |-> "error:status", called |-> TRUE]

RECURSIVE execute_allocations(_, _, _, _, _)
\* multi_strategy.execute_allocations: the loop over the plans, acc holding
\* the results dict ("absent" for a missing key) and the deposit_all calls
execute_allocations(allocations, adapters, venue, dry_run, acc) ==
    IF allocations = << >> THEN acc
    ELSE LET pool_id == Head(allocations)
             step == AllocationStep(dry_run, adapters[pool_id], venue[pool_id])
         IN execute_allocations(
                Tail(allocations), adapters, venue, dry_run,
                [results |-> [acc.results EXCEPT ![pool_id] = step.result],
                 calls |-> IF step.called
                             THEN Append(acc.calls, [op |-> "deposit_all",
                                                     pool |-> pool_id])
                             ELSE acc.calls])

\* one call of execute_allocations
apply_execute_allocations ==
    \E adapters \in [Pools -> BOOLEAN], venue \in [Pools -> VenueResults] :
        /\ fn = "none"
        /\ args.fn = "execute_allocations"
        /\ fn' = "execute_allocations"
        /\ ret' = execute_allocations(args.allocations, adapters, venue, args.dry_run,
                                      [results |-> [p \in Pools |-> "absent"],
                                       calls |-> << >>])
        /\ UNCHANGED <<ioVars, now, ksVars, lockVars, cycVars, args>>

\* the cycles as select_best_pool leaves them
SelectedCycles ==
    {[FreshCycle EXCEPT !.prev_pool = prev, !.prev_known = prev # NoPool,
                        !.prev_score = prev_score, !.sel_pool = sel,
                        !.sel_score = MaxScore, !.sel_rnet = 1, !.prev_rnet = 1,
                        !.switch_ok = prev # sel] :
        prev \in Pools \cup {NoPool}, sel \in Pools, prev_score \in {0, MaxScore}}

InitDryRun ==
    /\ now = 0
    /\ KillSwitchInit(3, 2)
    /\ ks_op = "init" /\ check_raised = FALSE /\ run_errors = 0 /\ run_clean = TRUE
    /\ ks_before = KillSwitchState
    /\ LockIdle
    /\ IoIdle
    /\ cfg \in [dry_run : BOOLEAN, onchain : {TRUE}, capital : {2},
               delta_switch : {DeltaSwitchPct}]
    /\ state \in {[StrategyState EXCEPT !.pool_id = c.prev_pool,
                                        !.last_portfolio_move = moved] :
                     c \in SelectedCycles, moved \in BOOLEAN}
    /\ cpc = "move"
    /\ cyc \in {c \in SelectedCycles : c.prev_pool = state.pool_id}
    /\ outcome = "running"
    /\ notified = FALSE
    /\ fn = "none"
    /\ args \in [fn : {"execute_allocations"}, allocations : AllocationPlans,
                dry_run : {cfg.dry_run}]
    /\ ret = << >>

NextDryRun ==
    \/ move_guards
    \/ venue_withdraw
    \/ venue_deposit
    \/ settle_and_finish
    \/ apply_execute_allocations

SpecDryRun == InitDryRun /\ [][NextDryRun]_vars

\* move_capital_smart has passed its guards and left the venue phase
MoveReported == cpc \in {"after_move", "done"} /\ cyc.pstatus = "notes"

\* every step of move_capital_smart that was due is in notes
DueStepsNoted ==
    /\ WithdrawDue(cyc) => \E i \in DOMAIN cyc.notes : cyc.notes[i].step = "withdraw"
    /\ DepositDue(cyc) => \E i \in DOMAIN cyc.notes : cyc.notes[i].step = "deposit"

\* C32: in dry-run mode no venue operation is invoked: move_capital_smart
\* and execute_allocations call neither withdraw_all nor deposit_all, record
\* no capital-move timestamp, and report every planned step with a dry-run
\* tag.
C32_DryRunCallsNothing ==
    /\ cfg.dry_run =>
         /\ cyc.calls = << >>
         /\ ~cyc.stamped
         /\ MoveReported =>
              /\ DueStepsNoted
              /\ \A i \in DOMAIN cyc.notes : cyc.notes[i].tag = "dry"
    /\ (fn = "execute_allocations" /\ args.dry_run) =>
         /\ ret.calls = << >>
         /\ \A i \in DOMAIN args.allocations :
              ret.results[args.allocations[i]] = "dry_run:deposit"

\* a dry run finished a cycle that planned a withdraw and a deposit, and a
\* dry call of execute_allocations reported two plans
C32_Witness ==
    /\ cfg.dry_run
    /\ cpc = "done"
    /\ outcome = "completed"
    /\ WithdrawDue(cyc)
    /\ Len(cyc.notes) = 2
    /\ fn = "execute_allocations"
    /\ Len(args.allocations) = 2
    /\ args.allocations[1] # args.allocations[2]

\* ------------------------------------- the rotation cycle: the recorded pool

\* a venue call of the cycle came back with a status other than ok
SomeCallNotOk == \E i \in DOMAIN cyc.calls : cyc.calls[i].status # "ok"

\* the cycle called op on pool and got status ok
CalledOk(op, pool) ==
    \E i \in DOMAIN cyc.calls :
        cyc.calls[i] = [op |-> op, pool |-> pool, status |-> "ok"]

\* C34: with on-chain execution enabled, the persisted active pool changes
\* to a new pool in a cycle only if that cycle's withdraw from the old pool
\* (when one was held) and its deposit into the new pool both returned
\* status ok; if either venue call returned a non-ok status the recorded
\* active pool stays the previously held one and last_switch_ts is not
\* advanced.
C34_PoolFollowsFunds ==
    (Completed /\ cfg.onchain /\ ~cfg.dry_run /\ cyc.pstatus = "notes") =>
        /\ state.pool_id # cyc.prev_pool =>
             /\ CalledOk("deposit_all", state.pool_id)
             /\ cyc.prev_pool # NoPool => CalledOk("withdraw_all", cyc.prev_pool)
        /\ SomeCallNotOk =>
             /\ state.pool_id = cyc.prev_pool
             /\ ~cyc.switch_stamped

\* ------------------------------------------- run_lock.py: whose record goes

\* C35: releasing the run lock never removes a record owned by another
\* invocation: an invocation whose acquisition failed deletes nothing, and
\* when A's record was reclaimed as stale by B while A was still running,
\* A's exit leaves B's record in place.
C35_ReleaseOwnRecordOnly ==
    [][ \A p \in Procs :
          /\ (pc[p] # "failed" /\ pc'[p] = "failed") => lock' = lock
          /\ (pc[p] = "exit_unlink" /\ pc'[p] = "done" /\ lock.exists) =>
                lock.pid = p ]_vars

\* ------------------------------------- onchain.py: where the retry is sent

\* C36: after a failover inside _rpc_try, the retried call is executed
\* against the newly selected active endpoint, not against the endpoint on
\* which it just failed, at every call site that goes through _rpc_try.
C36_RetryOnNewEndpoint ==
    rpc.attempts >= 2 => rpc.called_on = rpc.active_at_call

\* ------------------------------- strategy.py: the ledger outside settlement

PoolFacts ==
    [listed : {TRUE}, in_allowlist : BOOLEAN, in_denylist : BOOLEAN,
     adapter : BOOLEAN, has_assets : BOOLEAN, tvl_ok : BOOLEAN, score : Scores]

\* a pool the fetch did not return
NotFetched ==
    [listed |-> FALSE, in_allowlist |-> FALSE, in_denylist |-> FALSE,
     adapter |-> FALSE, has_assets |-> FALSE, tvl_ok |-> FALSE, score |-> 0]

\* the loop of select_best_pool: the pool passes the allow-list and the
\* deny-list, has an adapter config and its required tokens, and
\* tvl_value >= min_tvl
PassesFilter(pool) ==
    /\ pool.listed
    /\ pool.in_allowlist
    /\ ~pool.in_denylist
    /\ pool.adapter
    /\ pool.has_assets
    /\ pool.tvl_ok

\* lookup and eligible_ids after the loop of select_best_pool
ViewOf(pools) ==
    [p \in Pools |->
        [listed |-> pools[p].listed, eligible |-> PassesFilter(pools[p]),
         score |-> pools[p].score,
         r_net |-> IF pools[p].score > 0 THEN 1 ELSE -2]]

\* the calls of select_best_pool that are tried
SelectCalls ==
    [fn : {"select_best_pool"}, pools : [Pools -> PoolFacts \cup {NotFetched}],
     pool_id : Pools \cup {NoPool}]

\* one call of select_best_pool: None without candidates
apply_select_best_pool ==
    /\ fn = "none"
    /\ args.fn = "select_best_pool"
    /\ fn' = "select_best_pool"
    /\ LET view == ViewOf(args.pools)
           held == [StrategyState EXCEPT !.pool_id = args.pool_id]
       IN IF Eligible(view) = {} THEN ret' = NoPool
          ELSE \E best \in BestSet(view) : ret' = select_best_pool(view, best, held)
    /\ UNCHANGED <<ioVars, now, ksVars, lockVars, cycVars, args>>

InitSelect ==
    /\ now = 0
    /\ KillSwitchInit(3, 2)
    /\ ks_op = "init" /\ check_raised = FALSE /\ run_errors = 0 /\ run_clean = TRUE
    /\ ks_before = KillSwitchState
    /\ LockIdle
    /\ IoIdle
    /\ CycleIdle
    /\ fn = "none"
    /\ args \in SelectCalls
    /\ ret = << >>

NextSelect == apply_select_best_pool

SpecSelect == InitSelect /\ [][NextSelect]_vars

\* C39: select_best_pool only ever returns a pool that is eligible in the
\* current cycle: it has a configured adapter, passes the allow-list and the
\* deny-list, meets the minimum TVL and has its required wallet assets; a
\* held pool that is no longer eligible is never returned as the selection.
C39_SelectionIsEligible ==
    (fn = "select_best_pool" /\ ret # NoPool) =>
        /\ args.pools[ret].listed
        /\ args.pools[ret].adapter
        /\ args.pools[ret].in_allowlist
        /\ ~args.pools[ret].in_denylist
        /\ args.pools[ret].tvl_ok
        /\ args.pools[ret].has_assets

\* the held pool scores highest but has fallen below the minimum TVL, and
\* the other pool was returned
C39_Witness ==
    /\ fn = "select_best_pool"
    /\ args.pool_id = "A"
    /\ args.pools["A"].listed
    /\ ~args.pools["A"].tvl_ok
    /\ args.pools["A"].score > args.pools["B"].score
    /\ ret = "B"

\* ------------------------------------------ executor.py: the switch cooldown
\* SpecCooldown calls move_capital_smart cycle after cycle.  Here cfg holds
\* SWITCH_COOLDOWN_S and the offset of the host's local time from UTC, state
\* the held pool and last_portfolio_move of state.json (the clock reading
\* that was written), cyc the facts of the last call.

\* SWITCH_COOLDOWN_S, in clock ticks: none, or two ticks
SwitchCooldowns == {0, 2}

\* local time minus UTC on the host, in clock ticks
UtcOffsets == {-1, 0, 1}

\* no call of move_capital_smart has been made
NoMoveCall ==
    [ran |-> FALSE, at |-> 0, current_pool |-> NoPool, next_pool |-> NoPool,
     status |-> "none", calls |-> << >>, movement |-> FALSE,
     last_move_at |-> NoStamp]

\* the wall clock of a zone at epoch t; time.gmtime is the zone of offset 0
WallClock(t, offset) == t + offset

\* time.mktime(time.strptime(text)): the text is read as local wall time
mktime(wall, utc_offset) == wall - utc_offset

\* move_capital_smart: the cooldown test that returns SKIP:cooldown
cooldown_active(cooldown_seconds, dry_run, current_pool, next_pool, last_move, t, utc_offset) ==
    /\ cooldown_seconds > 0
    /\ ~dry_run
    /\ current_pool # next_pool
    /\ last_move # NoStamp
    /\ t - mktime(last_move[1], utc_offset) < cooldown_seconds

\* one cycle: move_capital_smart with its venue calls and its stamp, then
\* the pool _run_strategy saves
cooldown_cycle ==
    \E d \in 1..2, next_pool \in Pools, gas_ok \in BOOLEAN, edge_ok \in BOOLEAN,
       w_res \in VenueResults, d_res \in VenueResults :
        LET t == now + d
            current_pool == state.pool_id
            status == IF ~gas_ok THEN "SKIP:gas"
                      ELSE IF cooldown_active(cfg.cooldown, FALSE, current_pool,
                                              next_pool, state.last_portfolio_move,
                                              t, cfg.utc_offset)
                             THEN "SKIP:cooldown"
                      ELSE IF ~edge_ok THEN "SKIP:edge"
                      ELSE "notes"
            withdraws == status = "notes" /\ current_pool # NoPool
                         /\ current_pool # next_pool
            deposits == status = "notes"
            calls == (IF withdraws
                        THEN <<[op |-> "withdraw_all", pool |-> current_pool,
                                status |-> w_res.status]>>
                        ELSE << >>)
                     \o (IF deposits
                           THEN <<[op |-> "deposit_all", pool |-> next_pool,
                                   status |-> d_res.status]>>
                           ELSE << >>)
            movement == \/ withdraws /\ WithdrawMoved(w_res)
                        \/ deposits /\ DepositMoved(d_res)
        IN /\ t <= MaxCycleTime
           /\ w_res.status # "raised" /\ d_res.status # "raised"
           /\ ~withdraws => w_res = [status |-> "ok", tx |-> TRUE]
           /\ ~deposits => d_res = [status |-> "ok", tx |-> TRUE]
           /\ now' = t
           /\ state' = [pool_id |-> IF IsSkip(status) /\ current_pool # NoPool
                                      THEN current_pool ELSE next_pool,
                        last_portfolio_move |->
                            IF movement THEN <<WallClock(t, 0)>>
                            ELSE state.last_portfolio_move]
           /\ cyc' = [ran |-> TRUE, at |-> t, current_pool |-> current_pool,
                      next_pool |-> next_pool, status |-> status, calls |-> calls,
                      movement |-> movement,
                      last_move_at |-> IF cyc.movement THEN <<cyc.at>>
                                       ELSE cyc.last_move_at]
           /\ UNCHANGED <<ksVars, lockVars, fnVars, cfg, cpc, outcome, notified,
                          ioVars>>

InitCooldown ==
    /\ now = 0
    /\ KillSwitchInit(3, 2)
    /\ ks_op = "init" /\ check_raised = FALSE /\ run_errors = 0 /\ run_clean = TRUE
    /\ ks_before = KillSwitchState
    /\ LockIdle
    /\ FnIdle
    /\ IoIdle
    /\ cfg \in [cooldown : SwitchCooldowns, utc_offset : UtcOffsets]
    /\ state = [pool_id |-> NoPool, last_portfolio_move |-> NoStamp]
    /\ cpc = "idle"
    /\ cyc = NoMoveCall
    /\ outcome = "none"
    /\ notified = FALSE

NextCooldown == cooldown_cycle

SpecCooldown == InitCooldown /\ [][NextCooldown]_vars

\* the last call was asked to move between different pools within the
\* cooldown of the last executed capital move
WithinCooldown ==
    /\ cyc.ran
    /\ cfg.cooldown > 0
    /\ cyc.current_pool # cyc.next_pool
    /\ cyc.last_move_at # NoStamp
    /\ cyc.at - cyc.last_move_at[1] < cfg.cooldown

\* C38: when a switch cooldown is configured (SWITCH_COOLDOWN_S > 0), two
\* executed capital moves between different pools are never less than the
\* cooldown apart: a non-dry-run move requested within the cooldown of the
\* last recorded capital move is skipped before any venue call, and the
\* active pool stays unchanged.
C38_CooldownIsMinimumDwell ==
    WithinCooldown =>
        /\ ~cyc.movement
        /\ cyc.calls = << >>
        /\ state.pool_id = cyc.current_pool

\* ---------------------------------------------------------------------
\* retry_policy.py, tx_errors.py: retry_with_backoff
\* ---------------------------------------------------------------------

\* the largest TX_RETRY_MAX_ATTEMPTS and TX_RETRY_MAX_DELAY drawn
MaxAttempts == 3
MaxDelay == 4

\* RetryConfig.exponential_base, the default of TX_RETRY_EXPONENTIAL_BASE
ExponentialBase == 2

\* the phrases classify_error looks for that an error message may contain;
\* a message is the set of these phrases found in its lower-cased text
Phrases == {"nonce too low", "insufficient funds", "paused", "timeout"}

Messages == SUBSET Phrases

\* the exceptions the wrapped function raises: an instance of a
\* TransactionError class, or any other Exception, with its message
ErrorClasses ==
    {"Exception", "TransactionError", "NonceError", "GasError", "TimeoutError"}

Errors == [cls : ErrorClasses, msg : Messages]

NoError == [cls |-> "none", msg |-> {}]

\* one invocation of the wrapped function: a return value or an exception
FuncOutcomes ==
    {[ok |-> TRUE, value |-> v, error |-> NoError] : v \in 1..2}
        \cup {[ok |-> FALSE, value |-> 0, error |-> e] : e \in Errors}

\* classify_error: the first group of phrases found in the message decides
classify_error(error_message) ==
    IF "nonce too low" \in error_message THEN "NonceError"
    ELSE IF "insufficient funds" \in error_message THEN "GasError"
    ELSE IF "paused" \in error_message THEN "PausedError"
    ELSE IF "timeout" \in error_message THEN "TimeoutError"
    ELSE "TransactionError"

\* should_retry: an exception that is not a TransactionError is classified
\* by its message
ErrorClassOf(error) ==
    IF error.cls # "Exception" THEN error.cls ELSE classify_error(error.msg)

\* RetryConfig.__init__: the clamping of the configured values
RetryConfig(max_attempts, initial_delay, max_delay, jitter) ==
    [max_attempts |-> Max(1, max_attempts),
     initial_delay |-> Max(0, initial_delay),
     max_delay |-> Max(Max(0, initial_delay), max_delay),
     exponential_base |-> Max(1, ExponentialBase),
     jitter |-> jitter]

RECURSIVE Power(_, _)
Power(b, n) == IF n = 0 THEN 1 ELSE b * Power(b, n - 1)

\* RetryConfig.get_delay: the delays it may return for an attempt; with
\* jitter, any value within a quarter of the capped delay (whole units)
get_delay(config, attempt) ==
    LET delay == Min(config.initial_delay * Power(config.exponential_base, attempt),
                     config.max_delay)
        jitter_amount == delay \div 4
    IN IF config.jitter /\ delay > 0
       THEN {Max(0, d) : d \in (delay - jitter_amount)..(delay + jitter_amount)}
       ELSE {delay}

\* mutant of should_retry: nonce and gas errors are retried like any other
should_retry_AnyClass(error, attempt, config) ==
    attempt < config.max_attempts - 1

\* should_retry
should_retry(error, attempt, config) ==
    IF attempt >= config.max_attempts - 1 THEN FALSE
    ELSE IF ErrorClassOf(error) \in {"NonceError", "GasError"} THEN FALSE
    ELSE TRUE

\* the frame of one retry_with_backoff call; calls, successes and fatal_at
\* are ghosts: the invocations of func so far, how many of them returned,
\* and the invocation that first raised a nonce or gas error (0: none)
NoRetry ==
    [config |-> RetryConfig(1, 0, 0, FALSE), attempt |-> 0, pc |-> "none",
     last |-> [ok |-> FALSE, value |-> 0, error |-> NoError],
     last_error |-> NoError, raised |-> NoError, result |-> 0, delay |-> 0,
     calls |-> 0, successes |-> 0, fatal_at |-> 0]

\* the calls made: the configuration as the environment gives it
RetryCalls ==
    [fn : {"retry_with_backoff"},
     max_attempts : 0..MaxAttempts,
     initial_delay : 0..1,
     max_delay : {0, MaxDelay},
     jitter : BOOLEAN]

\* the for loop of retry_with_backoff moves to its next attempt; when the
\* range is used up the last error is raised
NextAttempt(r) ==
    IF r.attempt + 1 < r.config.max_attempts
    THEN [r EXCEPT !.attempt = r.attempt + 1, !.pc = "call", !.delay = 0]
    ELSE [r EXCEPT !.pc = "raised", !.raised = r.last_error, !.delay = 0]

\* retry_with_backoff is entered: the configuration is built and the loop
\* starts at attempt 0
retry_start ==
    /\ fn = "none"
    /\ args.fn = "retry_with_backoff"
    /\ fn' = "retry_with_backoff"
    /\ ret' = [NoRetry EXCEPT
                 !.config = RetryConfig(args.max_attempts, args.initial_delay,
                                        args.max_delay, args.jitter),
                 !.pc = "call"]
    /\ UNCHANGED <<ioVars, now, ksVars, lockVars, cycVars, args>>

\* one pass of the loop body: func is invoked; its value is returned, or
\* its exception is re-raised or followed by the delay before the retry
retry_attempt ==
    /\ fn = "retry_with_backoff"
    /\ ret.pc = "call"
    /\ \E out \in FuncOutcomes :
         LET called == [ret EXCEPT
                          !.last = out,
                          !.calls = ret.calls + 1,
                          !.successes = ret.successes + (IF out.ok THEN 1 ELSE 0),
                          !.fatal_at =
                              IF /\ ret.fatal_at = 0
                                 /\ ~out.ok
                                 /\ ErrorClassOf(out.error) \in {"NonceError", "GasError"}
                              THEN ret.calls + 1 ELSE ret.fatal_at]
             failed == [called EXCEPT !.last_error = out.error]
         IN IF out.ok
            THEN ret' = [called EXCEPT !.pc = "returned", !.result = out.value]
            ELSE IF ~should_retry(out.error, ret.attempt, ret.config)
            THEN ret' = [failed EXCEPT !.pc = "raised", !.raised = out.error]
            ELSE IF ret.attempt < ret.config.max_attempts - 1
            THEN \E delay \in get_delay(ret.config, ret.attempt) :
                    ret' = IF delay > 0
                           THEN [failed EXCEPT !.pc = "sleep", !.delay = delay]
                           ELSE NextAttempt(failed)
            ELSE ret' = NextAttempt(failed)
    /\ UNCHANGED <<ioVars, now, ksVars, lockVars, cycVars, fn, args>>

\* time.sleep(delay) returns and the loop goes on
retry_sleep ==
    /\ fn = "retry_with_backoff"
    /\ ret.pc = "sleep"
    /\ now' = now + ret.delay
    /\ ret' = NextAttempt(ret)
    /\ UNCHANGED <<ioVars, ksVars, lockVars, cycVars, fn, args>>

InitRetry ==
    /\ now = 0
    /\ KillSwitchInit(3, 2)
    /\ ks_op = "init" /\ check_raised = FALSE /\ run_errors = 0 /\ run_clean = TRUE
    /\ ks_before = KillSwitchState
    /\ LockIdle
    /\ IoIdle
    /\ CycleIdle
    /\ fn = "none"
    /\ args \in RetryCalls
    /\ ret = NoRetry

NextRetry ==
    \/ retry_start
    \/ retry_attempt
    \/ retry_sleep

\* the call runs on one thread: func returns or raises, and the sleep ends
SpecRetry == InitRetry /\ [][NextRetry]_vars /\ WF_vars(NextRetry)

\* retry_with_backoff has returned a value or raised
RetryDone == ret.pc \in {"returned", "raised"}

RetrySafe ==
    /\ ret.calls <= ret.config.max_attempts
    /\ ret.pc = "returned" =>
          /\ ret.last.ok
          /\ ret.result = ret.last.value
          /\ ret.successes = 1
    /\ ret.pc = "raised" =>
          /\ ~ret.last.ok
          /\ ret.successes = 0
          /\ ret.raised = ret.last.error
          /\ \/ ret.calls = ret.config.max_attempts
             \/ ErrorClassOf(ret.last.error) \in {"NonceError", "GasError"}
    /\ ret.fatal_at # 0 =>
          /\ ret.pc = "raised"
          /\ ret.calls = ret.fatal_at
    /\ (ret.calls >= 1 /\ ret.fatal_at = 1) => ret.calls = 1

\* C40: retry_with_backoff invokes the wrapped function at most
\* max_attempts times and always terminates: it returns the first
\* successful result, or re-raises the last exception once the attempts are
\* used up or the error is a nonce or gas error, which is re-raised with no
\* further invocation (after exactly one invocation when it is the first).
C40_BoundedRetry == [](RetrySafe) /\ <>(RetryDone)

\* a first invocation that raised a plain exception whose message reports a
\* low nonce was re-raised at once although three attempts were configured
C40_Witness ==
    /\ ret.pc = "raised"
    /\ ret.config.max_attempts = MaxAttempts
    /\ ret.calls = 1
    /\ ret.raised.cls = "Exception"
    /\ "nonce too low" \in ret.raised.msg

====
